---- MODULE Spec2Model ----
(***************************************************************************)
(* A model of httpreqx: a client (HttpClient) that owns a RequestOptions   *)
(* value, requests (Request) created from a client that refer to a         *)
(* RequestOptions value, and the execution of a request (Request.Do).      *)
(*                                                                         *)
(* RequestOptions values are reached through pointers in the source        *)
(* (pointers to RequestOptions) and the Headers field is a Go map, itself a *)
(* reference.  Both are modelled as heaps: `options` holds the             *)
(* RequestOptions structs and `headerMaps` the header maps; a pointer is   *)
(* an index into the heap and 0 is nil.                                    *)
(***************************************************************************)
EXTENDS Integers, Sequences, FiniteSets, TLC

(***************************************************************************)
(* Bounds of the model.                                                    *)
(***************************************************************************)
MaxClients == 2
MaxRequests == 2
MaxCalls == 2
MaxDo == 2

(***************************************************************************)
(* Values.                                                                 *)
(***************************************************************************)
\* time.Second * 20, in seconds
DefaultTimeout == 20
Timeouts == {10, 30}

\* a nil pointer, a nil map
Nil == 0

\* BodyMarshaler / BodyUnmarshaler interface values.  "Noop" and "JSON" are
\* the two codecs of the package; "UserCodec" is a caller-written codec whose
\* OnRequestReady returns an error.
NilCodec == "nil"
Codecs == {"Noop", "JSON", "UserCodec"}

\* OnRequestReadyHook / OnResponseReadyHook values: a hook that returns nil
\* and a hook that returns an error.
NilHook == "nil"
Hooks == {"HookOK", "HookFails"}

\* the closure SetDumpOnError installs
DumpHook == "dump"

\* header names and values; "x-a" and "X-A" differ only in letter case
HeaderKeys == {"X-A", "x-a", "X-B"}
HeaderValues == {"v1", "v2"}
EmptyMap == [k \in {} |-> "v1"]
\* the arguments of SetHeaders: the non-empty maps over HeaderKeys
HeaderArgs == UNION {[S -> HeaderValues] : S \in (SUBSET HeaderKeys) \ {{}}}

\* request bodies (interface{}): nil, a string, a value of another type
NilBody == "nil"
Bodies == {"string", "struct"}
\* destinations of WriteBodyTo: nil, *string, a value of another type
Destinations == {"nil", "*string", "*struct"}
\* the contexts given to the factories
Contexts == {"background", "cancellable"}
Paths == {"http://ok", "::bad"}

VARIABLES
    clients,     \* the HttpClient structs
    options,     \* the heap of RequestOptions structs
    headerMaps,  \* the heap of header maps
    requests,    \* the Request structs
    exec,        \* for each Request, the state of its call of Do
    calls,       \* the number of setter calls made so far
    lastCall,    \* the receiver of the latest setter call
    hist,        \* the headers each client and each request was given
                 \* through its own setters, the value each RequestOptions
                 \* was given last for each header name, and the number of
                 \* calls of SetDumpOnError
    codec        \* a call of Marshal followed by one of Unmarshal: the
                 \* arguments, the writer and the results

vars == <<clients, options, headerMaps, requests, exec, calls, lastCall, hist,
          codec>>

ClientIds == 1..Len(clients)
RequestIds == 1..Len(requests)

(***************************************************************************)
(* RequestOptions.                                                         *)
(***************************************************************************)

\* the contents of the map a Headers field refers to (a nil map reads as empty)
HeadersOf(maps, o) == IF o.Headers = Nil THEN EmptyMap ELSE maps[o.Headers]

\* A mutant of RequestOptionsClone: the Headers map is copied by reference.
RequestOptionsCloneSharedMap(o, newMap) ==
    [BodyMarshaler     |-> o.BodyMarshaler,
     BodyUnmarshaler   |-> o.BodyUnmarshaler,
     Headers           |-> o.Headers,
     OnRequestReady    |-> o.OnRequestReady,
     OnResponseReady   |-> o.OnResponseReady,
     OnErrorHooks      |-> o.OnErrorHooks,
     StackTraceEnabled |-> o.StackTraceEnabled]

\* RequestOptions.Clone: the struct of the clone, whose Headers is the
\* freshly made map newMap; the hook slice is copied element by element.
RequestOptionsClone(o, newMap) ==
    [BodyMarshaler     |-> o.BodyMarshaler,
     BodyUnmarshaler   |-> o.BodyUnmarshaler,
     Headers           |-> newMap,
     OnRequestReady    |-> o.OnRequestReady,
     OnResponseReady   |-> o.OnResponseReady,
     OnErrorHooks      |-> [i \in 1..Len(o.OnErrorHooks) |-> o.OnErrorHooks[i]],
     StackTraceEnabled |-> o.StackTraceEnabled]

\* A mutant of ClonedHeaders: the entries are not copied.
ClonedHeadersEmpty(maps, o) == EmptyMap

\* the new map of a clone: every entry of the original's map
ClonedHeaders(maps, o) == [k \in DOMAIN HeadersOf(maps, o) |-> HeadersOf(maps, o)[k]]

\* The setters below take the heaps and the pointer p of the RequestOptions
\* they act on, and give the heaps after the call.
Heaps(opts, maps) == [options |-> opts, headerMaps |-> maps]

RequestOptionsSetBodyMarshaler(opts, maps, p, marshaler) ==
    Heaps([opts EXCEPT ![p].BodyMarshaler = marshaler], maps)

RequestOptionsSetBodyUnmarshaler(opts, maps, p, unmarshaler) ==
    Heaps([opts EXCEPT ![p].BodyUnmarshaler = unmarshaler], maps)

\* the loop of RequestOptions.SetHeaders: every entry of headers is stored
Upsert(old, headers) ==
    [k \in DOMAIN old \cup DOMAIN headers |->
        IF k \in DOMAIN headers THEN headers[k] ELSE old[k]]

\* http.Header.Set canonicalises the key
Canonical(k) == IF k = "x-a" THEN "X-A" ELSE k

\* The record of the latest writes: for each header name, whatever the case
\* of its letters, the value the RequestOptions p was given last.  The
\* writes of one SetHeaders call are in the order of a range over its
\* argument; of two keys of one argument that name the same header either
\* is the later.
Written(last, p, headers) ==
    LET names == {Canonical(k) : k \in DOMAIN headers}
    IN  [last EXCEPT ![p] =
            [n \in DOMAIN @ \cup names |->
                IF n \in names
                    THEN headers[CHOOSE k \in DOMAIN headers : Canonical(k) = n]
                    ELSE @[n]]]

\* A mutant of RequestOptionsSetHeaders: the map is replaced by the argument.
RequestOptionsSetHeadersReplace(opts, maps, p, headers) ==
    LET made == IF opts[p].Headers = Nil THEN Append(maps, EmptyMap) ELSE maps
        m    == IF opts[p].Headers = Nil THEN Len(maps) + 1 ELSE opts[p].Headers
    IN  Heaps([opts EXCEPT ![p].Headers = m], [made EXCEPT ![m] = headers])

\* RequestOptions.SetHeaders: make the map when it is nil, then upsert
RequestOptionsSetHeaders(opts, maps, p, headers) ==
    LET made == IF opts[p].Headers = Nil THEN Append(maps, EmptyMap) ELSE maps
        m    == IF opts[p].Headers = Nil THEN Len(maps) + 1 ELSE opts[p].Headers
    IN  Heaps([opts EXCEPT ![p].Headers = m],
              [made EXCEPT ![m] = Upsert(made[m], headers)])

RequestOptionsSetHeader(opts, maps, p, key, value) ==
    RequestOptionsSetHeaders(opts, maps, p, [k \in {key} |-> value])

RequestOptionsSetOnRequestReady(opts, maps, p, hook) ==
    Heaps([opts EXCEPT ![p].OnRequestReady = hook], maps)

RequestOptionsSetOnResponseReady(opts, maps, p, hook) ==
    Heaps([opts EXCEPT ![p].OnResponseReady = hook], maps)

\* A mutant of RequestOptionsSetStackTraceEnabled: disabling the stack trace
\* removes the error hooks as well.
RequestOptionsSetStackTraceEnabledDropsHooks(opts, maps, p, enabled) ==
    Heaps([opts EXCEPT ![p].StackTraceEnabled = enabled,
                       ![p].OnErrorHooks = IF enabled THEN @ ELSE <<>>], maps)

RequestOptionsSetStackTraceEnabled(opts, maps, p, enabled) ==
    Heaps([opts EXCEPT ![p].StackTraceEnabled = enabled], maps)

\* A mutant of RequestOptionsSetDumpOnError: the dump closure is appended to
\* the hooks the slice holds.
RequestOptionsSetDumpOnErrorAppend(opts, maps, p) ==
    LET h == RequestOptionsSetStackTraceEnabled(opts, maps, p, TRUE)
    IN  Heaps([h.options EXCEPT ![p].OnErrorHooks = Append(@, DumpHook)],
              h.headerMaps)

\* RequestOptions.SetDumpOnError: enable the stack trace, then replace the
\* hook slice by a new one that holds the dump closure alone
RequestOptionsSetDumpOnError(opts, maps, p) ==
    LET h == RequestOptionsSetStackTraceEnabled(opts, maps, p, TRUE)
    IN  Heaps([h.options EXCEPT ![p].OnErrorHooks = Append(<<>>, DumpHook)],
              h.headerMaps)

(***************************************************************************)
(* HttpClient.                                                             *)
(***************************************************************************)

\* A mutant of DefaultOptions: the zero value of RequestOptions.
DefaultOptionsZero ==
    [BodyMarshaler     |-> NilCodec,
     BodyUnmarshaler   |-> NilCodec,
     Headers           |-> Nil,
     OnRequestReady    |-> NilHook,
     OnResponseReady   |-> NilHook,
     OnErrorHooks      |-> <<>>,
     StackTraceEnabled |-> FALSE]

\* NewHttpClient: the RequestOptions literal of the constructor
DefaultOptions ==
    [BodyMarshaler     |-> "Noop",
     BodyUnmarshaler   |-> "Noop",
     Headers           |-> Nil,
     OnRequestReady    |-> NilHook,
     OnResponseReady   |-> NilHook,
     OnErrorHooks      |-> <<>>,
     StackTraceEnabled |-> FALSE]

\* NewHttpClient: the HttpClient literal; p is the new RequestOptions
NewHttpClient(p) == [timeout |-> DefaultTimeout, requestOptions |-> p]

\* no codec is called outside Do
NoCodecCall == [codec |-> NilCodec, pc |-> "none"]

\* the receivers of setter calls
NoCall == [on |-> "none", id |-> 0]
OnClient(c) == [on |-> "client", id |-> c]
OnRequest(r) == [on |-> "request", id |-> r]

\* the state after client := NewHttpClient()
Init ==
    /\ clients = <<NewHttpClient(1)>>
    /\ options = <<DefaultOptions>>
    /\ headerMaps = <<>>
    /\ requests = <<>>
    /\ exec = <<>>
    /\ calls = 0
    /\ lastCall = NoCall
    /\ hist = [clientHeaders |-> <<EmptyMap>>, requestHeaders |-> <<>>,
               lastWrite |-> <<EmptyMap>>, dumpCalls |-> 0]
    /\ codec = NoCodecCall

\* the RequestOptions a client points to, and its headers
ClientOptions(c) == options[clients[c].requestOptions]
ClientHeaders(c) == HeadersOf(headerMaps, ClientOptions(c))

\* A mutant of HttpClientClone: the clone keeps the original's pointer.
HttpClientCloneSharedOptions(c, p) ==
    [timeout |-> clients[c].timeout, requestOptions |-> clients[c].requestOptions]

\* HttpClient.Clone: the HttpClient literal of the clone; p is the pointer
\* RequestOptions.Clone returned
HttpClientClone(c, p) ==
    [timeout |-> clients[c].timeout, requestOptions |-> p]

Clone(c) ==
    /\ Len(clients) < MaxClients
    /\ LET o == ClientOptions(c)
           newMap == Len(headerMaps) + 1
           p == Len(options) + 1
       IN  /\ headerMaps' = Append(headerMaps, ClonedHeaders(headerMaps, o))
           /\ options' = Append(options, RequestOptionsClone(o, newMap))
           /\ clients' = Append(clients, HttpClientClone(c, p))
    /\ hist' = [hist EXCEPT !.clientHeaders = Append(@, @[c]),
                            !.lastWrite = Append(@, @[clients[c].requestOptions])]
    /\ UNCHANGED <<requests, exec, calls, lastCall, codec>>

\* a setter call of receiver who: the heaps become h
Store(h, who) ==
    /\ calls < MaxCalls
    /\ calls' = calls + 1
    /\ lastCall' = who
    /\ options' = h.options
    /\ headerMaps' = h.headerMaps

HttpClientSetBodyMarshaler(c, marshaler) ==
    /\ Store(RequestOptionsSetBodyMarshaler(options, headerMaps,
                clients[c].requestOptions, marshaler), OnClient(c))
    /\ UNCHANGED <<clients, requests, exec, hist, codec>>

HttpClientSetBodyUnmarshaler(c, unmarshaler) ==
    /\ Store(RequestOptionsSetBodyUnmarshaler(options, headerMaps,
                clients[c].requestOptions, unmarshaler), OnClient(c))
    /\ UNCHANGED <<clients, requests, exec, hist, codec>>

HttpClientSetHeaders(c, headers) ==
    /\ Store(RequestOptionsSetHeaders(options, headerMaps,
                clients[c].requestOptions, headers), OnClient(c))
    /\ hist' = [hist EXCEPT !.clientHeaders[c] = Upsert(@, headers),
                            !.lastWrite = Written(@, clients[c].requestOptions, headers)]
    /\ UNCHANGED <<clients, requests, exec, codec>>

HttpClientSetHeader(c, key, value) ==
    /\ Store(RequestOptionsSetHeader(options, headerMaps,
                clients[c].requestOptions, key, value), OnClient(c))
    /\ hist' = [hist EXCEPT !.clientHeaders[c] = Upsert(@, [k \in {key} |-> value]),
                            !.lastWrite = Written(@, clients[c].requestOptions,
                                                  [k \in {key} |-> value])]
    /\ UNCHANGED <<clients, requests, exec, codec>>

HttpClientSetTimeout(c, timeout) ==
    /\ calls < MaxCalls
    /\ calls' = calls + 1
    /\ lastCall' = OnClient(c)
    /\ clients' = [clients EXCEPT ![c].timeout = timeout]
    /\ UNCHANGED <<options, headerMaps, requests, exec, hist, codec>>

HttpClientSetOnRequestReady(c, hook) ==
    /\ Store(RequestOptionsSetOnRequestReady(options, headerMaps,
                clients[c].requestOptions, hook), OnClient(c))
    /\ UNCHANGED <<clients, requests, exec, hist, codec>>

HttpClientSetOnResponseReady(c, hook) ==
    /\ Store(RequestOptionsSetOnResponseReady(options, headerMaps,
                clients[c].requestOptions, hook), OnClient(c))
    /\ UNCHANGED <<clients, requests, exec, hist, codec>>

HttpClientSetDumpOnError(c) ==
    /\ Store(RequestOptionsSetDumpOnError(options, headerMaps,
                clients[c].requestOptions), OnClient(c))
    /\ hist' = [hist EXCEPT !.dumpCalls = @ + 1]
    /\ UNCHANGED <<clients, requests, exec, codec>>

HttpClientSetStackTraceEnabled(c, enabled) ==
    /\ Store(RequestOptionsSetStackTraceEnabled(options, headerMaps,
                clients[c].requestOptions, enabled), OnClient(c))
    /\ UNCHANGED <<clients, requests, exec, hist, codec>>

(***************************************************************************)
(* Request: construction and the request-level setters.                    *)
(***************************************************************************)

\* an absent error, an absent (nil) *http.Response
NoError == [msg |-> "nil", cause |-> "none", code |-> 0, status |-> <<>>, stack |-> FALSE]
NoResponse == [present |-> FALSE, StatusCode |-> 0, Status |-> <<>>, Body |-> Nil]

\* what Do returned: nothing yet
NotReturned == [returned |-> FALSE, resp |-> FALSE, err |-> NoError]

\* The locals of Do and what the call has done, before Do is called.
\*   pc                 the next statement of Do
\*   beforeRequestHooks the local slice of ready-hooks, hooksRun those called
\*   reqMade, reqHeader the *http.Request req and its header
\*   dispatches         the number of calls of r.client.do
\*   resp               the *http.Response resp; resp.Body points into bodies
\*   bodies             the body streams: 1 is the body the transport gave,
\*                      the others are the buffers dumpResponse put in its place
\*   deferred           the deferred function is registered
\*   destWritten        the unmarshaler wrote to unmarshalResultTo
\*   errorHookCalls     the arguments of each call of an error hook
\*   ret                the values of the return statement
\*   read, written      the RequestOptions the calls on this Request have
\*                      read and written
\*   responseHookRuns   the number of calls of the response-ready hook
\*   finished           the number of calls of Do that returned before this one
NotStarted ==
    [pc                 |-> "built",
     read               |-> {},
     written            |-> {},
     beforeRequestHooks |-> <<>>,
     hooksRun           |-> <<>>,
     marshaled          |-> FALSE,
     reqMade            |-> FALSE,
     reqHeader          |-> EmptyMap,
     dispatches         |-> 0,
     resp               |-> NoResponse,
     bodies             |-> <<>>,
     deferred           |-> FALSE,
     destWritten        |-> FALSE,
     errorHookCalls     |-> <<>>,
     responseHookRuns   |-> 0,
     finished           |-> 0,
     ret                |-> NotReturned]

\* HttpClient.NewRequest: the Request literal
NewRequestValue(c, ctx, method, path, body) ==
    [client            |-> c,
     method            |-> method,
     path              |-> path,
     ctx               |-> ctx,
     body              |-> body,
     unmarshalResultTo |-> "nil",
     unmarshalResult   |-> FALSE,
     options           |-> clients[c].requestOptions]

NewRequest(c, ctx, method, path, body) ==
    /\ Len(requests) < MaxRequests
    /\ requests' = Append(requests, NewRequestValue(c, ctx, method, path, body))
    /\ exec' = Append(exec, NotStarted)
    /\ hist' = [hist EXCEPT !.requestHeaders = Append(@, EmptyMap)]
    /\ UNCHANGED <<clients, options, headerMaps, calls, lastCall, codec>>

NewGetRequest(c, ctx, path) == NewRequest(c, ctx, "GET", path, NilBody)

NewPostRequest(c, ctx, path, body) == NewRequest(c, ctx, "POST", path, body)

\* A mutant of NewPutRequest: the body is dropped.
NewPutRequestNoBody(c, ctx, path, body) == NewRequest(c, ctx, "PUT", path, NilBody)

NewPutRequest(c, ctx, path, body) == NewRequest(c, ctx, "PUT", path, body)

NewPatchRequest(c, ctx, path, body) == NewRequest(c, ctx, "PATCH", path, body)

NewDeleteRequest(c, ctx, path) == NewRequest(c, ctx, "DELETE", path, NilBody)

NewOptionsRequest(c, ctx, path) == NewRequest(c, ctx, "OPTIONS", path, NilBody)

NewConnectRequest(c, ctx, path) == NewRequest(c, ctx, "CONNECT", path, NilBody)

NewHeadRequest(c, ctx, path) == NewRequest(c, ctx, "HEAD", path, NilBody)

NewTraceRequest(c, ctx, path) == NewRequest(c, ctx, "TRACE", path, NilBody)

\* the setters of a Request are called before Do
Built(r) == exec[r].pc = "built"

WriteBodyTo(r, result) ==
    /\ Built(r)
    /\ ~requests[r].unmarshalResult
    /\ requests' = [requests EXCEPT ![r].unmarshalResultTo = result,
                                    ![r].unmarshalResult = TRUE]
    /\ UNCHANGED <<clients, options, headerMaps, exec, calls, lastCall, hist, codec>>

RequestSetBodyMarshaler(r, marshaler) ==
    /\ Built(r)
    /\ Store(RequestOptionsSetBodyMarshaler(options, headerMaps,
                requests[r].options, marshaler), OnRequest(r))
    /\ exec' = [exec EXCEPT ![r].written = @ \cup {requests[r].options}]
    /\ UNCHANGED <<clients, requests, hist, codec>>

RequestSetBodyUnmarshaler(r, unmarshaler) ==
    /\ Built(r)
    /\ Store(RequestOptionsSetBodyUnmarshaler(options, headerMaps,
                requests[r].options, unmarshaler), OnRequest(r))
    /\ exec' = [exec EXCEPT ![r].written = @ \cup {requests[r].options}]
    /\ UNCHANGED <<clients, requests, hist, codec>>

RequestSetHeaders(r, headers) ==
    /\ Built(r)
    /\ Store(RequestOptionsSetHeaders(options, headerMaps,
                requests[r].options, headers), OnRequest(r))
    /\ exec' = [exec EXCEPT ![r].written = @ \cup {requests[r].options}]
    /\ hist' = [hist EXCEPT !.requestHeaders[r] = Upsert(@, headers),
                            !.lastWrite = Written(@, requests[r].options, headers)]
    /\ UNCHANGED <<clients, requests, codec>>

RequestSetHeader(r, key, value) ==
    /\ Built(r)
    /\ Store(RequestOptionsSetHeader(options, headerMaps,
                requests[r].options, key, value), OnRequest(r))
    /\ exec' = [exec EXCEPT ![r].written = @ \cup {requests[r].options}]
    /\ hist' = [hist EXCEPT !.requestHeaders[r] = Upsert(@, [k \in {key} |-> value]),
                            !.lastWrite = Written(@, requests[r].options,
                                                  [k \in {key} |-> value])]
    /\ UNCHANGED <<clients, requests, codec>>

RequestSetOnRequestReady(r, hook) ==
    /\ Built(r)
    /\ Store(RequestOptionsSetOnRequestReady(options, headerMaps,
                requests[r].options, hook), OnRequest(r))
    /\ exec' = [exec EXCEPT ![r].written = @ \cup {requests[r].options}]
    /\ UNCHANGED <<clients, requests, hist, codec>>

RequestSetOnResponseReady(r, hook) ==
    /\ Built(r)
    /\ Store(RequestOptionsSetOnResponseReady(options, headerMaps,
                requests[r].options, hook), OnRequest(r))
    /\ exec' = [exec EXCEPT ![r].written = @ \cup {requests[r].options}]
    /\ UNCHANGED <<clients, requests, hist, codec>>

RequestSetDumpOnError(r) ==
    /\ Built(r)
    /\ Store(RequestOptionsSetDumpOnError(options, headerMaps,
                requests[r].options), OnRequest(r))
    /\ exec' = [exec EXCEPT ![r].written = @ \cup {requests[r].options}]
    /\ hist' = [hist EXCEPT !.dumpCalls = @ + 1]
    /\ UNCHANGED <<clients, requests, codec>>

RequestSetStackTraceEnabled(r, enabled) ==
    /\ Built(r)
    /\ Store(RequestOptionsSetStackTraceEnabled(options, headerMaps,
                requests[r].options, enabled), OnRequest(r))
    /\ exec' = [exec EXCEPT ![r].written = @ \cup {requests[r].options}]
    /\ UNCHANGED <<clients, requests, hist, codec>>

(***************************************************************************)
(* Spec: clients are configured and cloned, requests are created and       *)
(* configured.  The arguments of the calls are drawn from the sets below.  *)
(***************************************************************************)
CfgCodecs == {"JSON", NilCodec}
CfgHooks == {"HookOK"}
CfgKeys == {"X-A", "X-B"}
CfgHeaders == {[k \in CfgKeys |-> "v2"]}
CfgTimeouts == {30}

ClientSetter ==
    \E c \in ClientIds :
        \/ \E m \in CfgCodecs : HttpClientSetBodyMarshaler(c, m)
        \/ \E u \in CfgCodecs : HttpClientSetBodyUnmarshaler(c, u)
        \/ \E h \in CfgHeaders : HttpClientSetHeaders(c, h)
        \/ \E k \in CfgKeys, v \in HeaderValues : HttpClientSetHeader(c, k, v)
        \/ \E t \in CfgTimeouts : HttpClientSetTimeout(c, t)
        \/ \E h \in CfgHooks : HttpClientSetOnRequestReady(c, h)
        \/ \E h \in CfgHooks : HttpClientSetOnResponseReady(c, h)
        \/ HttpClientSetDumpOnError(c)
        \/ \E b \in BOOLEAN : HttpClientSetStackTraceEnabled(c, b)

RequestSetter ==
    \E r \in RequestIds :
        \/ \E m \in CfgCodecs : RequestSetBodyMarshaler(r, m)
        \/ \E u \in CfgCodecs : RequestSetBodyUnmarshaler(r, u)
        \/ \E h \in CfgHeaders : RequestSetHeaders(r, h)
        \/ \E k \in CfgKeys, v \in HeaderValues : RequestSetHeader(r, k, v)
        \/ \E h \in CfgHooks : RequestSetOnRequestReady(r, h)
        \/ \E h \in CfgHooks : RequestSetOnResponseReady(r, h)
        \/ RequestSetDumpOnError(r)
        \/ \E b \in BOOLEAN : RequestSetStackTraceEnabled(r, b)

Factory ==
    \E c \in ClientIds :
        \/ NewGetRequest(c, "background", "http://ok")
        \/ NewPostRequest(c, "background", "http://ok", "string")

Next ==
    \/ \E c \in ClientIds : Clone(c)
    \/ ClientSetter
    \/ Factory
    \/ RequestSetter

Spec == Init /\ [][Next]_vars

(***************************************************************************)
(* Request.Do.  Each action below is one statement group of Do, run for    *)
(* the Request r; exec[r].pc names the next one.  A return statement       *)
(* before the defer statement ends the call ("returned"); one after it     *)
(* leaves the deferred function to run ("deferred").                       *)
(***************************************************************************)

\* errors.New(msg), fmt.Errorf(msg + ": %w", cause)
NewError(msg) == [NoError EXCEPT !.msg = msg]
Wrap(msg, cause) == [NoError EXCEPT !.msg = msg, !.cause = cause]

\* BodyMarshaler.Marshal: the error it returns, "none" when it succeeds.
\* The Noop marshaler takes []byte, string and io.Reader; the JSON marshaler
\* encodes the two kinds of body of the model.
Marshal(marshaler, body) ==
    IF body = NilBody THEN "body is nil"
    ELSE IF marshaler = "Noop" /\ body # "string" THEN "unsupported body type"
    ELSE "none"

\* the OnRequestReady of a codec or a user hook: the error it returns
HookResult(fn) == IF fn \in {"UserCodec", "HookFails"} THEN fn ELSE "none"

\* the header a codec's OnRequestReady sets on the request; "HookStamps" is
\* a hook of the user that sets the two headers the JSON codecs set
HookHeader(owner, fn) ==
    IF fn = "JSON" /\ owner = "marshaler"
        THEN [k \in {"Content-Type"} |-> "application/json"]
    ELSE IF fn = "JSON" /\ owner = "unmarshaler"
        THEN [k \in {"Accept"} |-> "application/json"]
    ELSE IF fn = "HookStamps" /\ owner = "user"
        THEN [k \in {"Content-Type", "Accept"} |-> "user"]
    ELSE EmptyMap

\* The loop over r.options.Headers: Go ranges over a map in an unspecified
\* order, so when two keys of the map have the same canonical form the value
\* that remains is the one of either.  The set of the headers the loop can
\* leave in a request whose header is empty.
RangeHeaders(m) ==
    {h \in [{Canonical(k) : k \in DOMAIN m} -> HeaderValues] :
        \A c \in DOMAIN h : \E k \in DOMAIN m : Canonical(k) = c /\ m[k] = h[c]}

\* BodyUnmarshaler.Unmarshal: the error it returns, "none" when it succeeds.
\* content is what the response body holds: "json" or "text".
Unmarshal(unmarshaler, result, content) ==
    IF unmarshaler = "Noop"
        THEN IF result = "nil" THEN "result destination is nil"
             ELSE IF result # "*string" THEN "unsupported result destination"
             ELSE "none"
    ELSE IF unmarshaler = "JSON"
        THEN IF result = "nil" \/ content # "json" THEN "json decode error"
             ELSE "none"
    ELSE "none"

\* IsSuccessResponse
IsSuccessResponseOffByOne(resp) ==
    resp.present /\ resp.StatusCode >= 200 /\ resp.StatusCode <= 300

IsSuccessResponse(resp) ==
    resp.present /\ resp.StatusCode >= 200 /\ resp.StatusCode < 300

\* A mutant of EnrichErrorWithStackTrace: no stack is captured.
EnrichErrorNoStack(err) == err

\* enrichErrorWithStackTrace
EnrichErrorWithStackTrace(err) == [err EXCEPT !.stack = TRUE]

\* strconv of %d, for the status codes of three digits
Digit(d) == <<"0", "1", "2", "3", "4", "5", "6", "7", "8", "9">>[d + 1]
Itoa(n) == <<Digit(n \div 100), Digit((n \div 10) % 10), Digit(n % 10)>>

\* err.Error() as a sequence of pieces of text.  The status error is
\* fmt.Errorf("%s:%d", resp.Status, resp.StatusCode); an EnrichedError adds
\* the stack trace.
ErrorMessageNoCode(err) ==
    IF err.msg = "status" THEN err.status \o <<":">>
    ELSE IF err.cause = "none" THEN <<err.msg>>
    ELSE <<err.msg, ": ", err.cause>>

ErrorMessage(err) ==
    IF err.msg = "status" THEN err.status \o <<":">> \o Itoa(err.code)
    ELSE IF err.cause = "none" THEN <<err.msg>>
    ELSE <<err.msg, ": ", err.cause>>

ErrorText(err) ==
    IF err.stack THEN ErrorMessage(err) \o <<"\nStack trace:\n", "<stack>">>
    ELSE ErrorMessage(err)

\* dumpResponse: reads resp.Body to its end, closes it and puts a new buffer
\* in its place
DumpResponseNoReset(e, respPresent) ==
    IF respPresent /\ e.resp.Body # Nil
        THEN [e EXCEPT !.bodies[e.resp.Body].read = TRUE,
                       !.bodies[e.resp.Body].closed = @ + 1]
        ELSE e

\* A mutant of DumpResponse: the buffer put in place is empty.
DumpResponseDrained(e, respPresent) ==
    IF respPresent /\ e.resp.Body # Nil
        THEN [e EXCEPT !.bodies = Append([@ EXCEPT ![e.resp.Body].read = TRUE,
                                                   ![e.resp.Body].closed = @ + 1],
                                         [closed |-> 0, read |-> FALSE, nop |-> TRUE,
                                          content |-> "rest"]),
                       !.resp.Body = Len(e.bodies) + 1]
        ELSE e

\* io.ReadAll gives what the body has left: all of it when nothing was read
\* from it, the rest ("rest") when the unmarshaler read from it.  The buffer
\* is an io.NopCloser (nop): Close does nothing to it.
DumpResponse(e, respPresent) ==
    IF respPresent /\ e.resp.Body # Nil
        THEN [e EXCEPT !.bodies = Append([@ EXCEPT ![e.resp.Body].read = TRUE,
                                                   ![e.resp.Body].closed = @ + 1],
                                         [closed |-> 0, read |-> FALSE, nop |-> TRUE,
                                          content |->
                                              IF e.bodies[e.resp.Body].read THEN "rest"
                                              ELSE e.bodies[e.resp.Body].content]),
                       !.resp.Body = Len(e.bodies) + 1]
        ELSE e

\* one error hook is called with (req, resp, err, body)
CallErrorHook(e, hook, reqPresent, respPresent, err, body) ==
    LET logged == [e EXCEPT !.errorHookCalls =
                        Append(@, [hook |-> hook, req |-> reqPresent,
                                   resp |-> respPresent, err |-> err, body |-> body])]
    IN  IF hook = DumpHook THEN DumpResponse(logged, respPresent) ELSE logged

RECURSIVE CallErrorHooks(_, _, _, _, _, _)
CallErrorHooks(e, hooks, reqPresent, respPresent, err, body) ==
    IF hooks = <<>> THEN e
    ELSE CallErrorHooks(CallErrorHook(e, Head(hooks), reqPresent, respPresent, err, body),
                        Tail(hooks), reqPresent, respPresent, err, body)

\* a statement of Do reads a field of r.options
Reading(r, e) == [e EXCEPT !.read = @ \cup {requests[r].options}]

\* A mutant of ProcessError: the hooks are called with the error as it was
\* before the stack trace is added.
ProcessErrorHooksFirst(r, e, reqPresent, respPresent, err, withResp, pc) ==
    LET o == options[requests[r].options]
        final == IF o.StackTraceEnabled THEN EnrichErrorWithStackTrace(err) ELSE err
        after == CallErrorHooks(e, o.OnErrorHooks, reqPresent, respPresent,
                                err, requests[r].body)
    IN  Reading(r, [after EXCEPT !.ret = [returned |-> TRUE, resp |-> withResp,
                                              err |-> final],
                                     !.pc = pc])

\* Request.processError followed by the return statement that uses its
\* result: return resp (when withResp) or nil, and the error
ProcessError(r, e, reqPresent, respPresent, err, withResp, pc) ==
    LET o == options[requests[r].options]
        final == IF o.StackTraceEnabled THEN EnrichErrorWithStackTrace(err) ELSE err
        after == CallErrorHooks(e, o.OnErrorHooks, reqPresent, respPresent,
                                final, requests[r].body)
    IN  Reading(r, [after EXCEPT !.ret = [returned |-> TRUE, resp |-> withResp,
                                              err |-> final],
                                     !.pc = pc])

DoStep(r, e) ==
    /\ exec' = [exec EXCEPT ![r] = e]
    /\ UNCHANGED <<clients, options, headerMaps, requests, calls, lastCall, hist, codec>>

\* lines 137-153, a mutant: a marshaler is required for a nil body as well
DoMarshalBodyAlwaysRequires(r) ==
    LET e == Reading(r, exec[r])
        bodyMarshaler == options[requests[r].options].BodyMarshaler
    IN  /\ e.pc = "built"
        /\ DoStep(r,
             IF bodyMarshaler = NilCodec
                 THEN ProcessError(r, e, FALSE, FALSE,
                                   NewError("body marshaler is not set"), FALSE, "returned")
             ELSE [e EXCEPT !.pc = "newRequest"])

\* lines 137-153: the body is marshaled
DoMarshalBody(r) ==
    LET body == requests[r].body
        e == IF body = NilBody THEN exec[r] ELSE Reading(r, exec[r])
        bodyMarshaler == options[requests[r].options].BodyMarshaler
        hooked == [e EXCEPT !.beforeRequestHooks =
                        Append(@, [owner |-> "marshaler", fn |-> bodyMarshaler])]
    IN  /\ e.pc = "built"
        /\ DoStep(r,
             IF body = NilBody THEN [e EXCEPT !.pc = "newRequest"]
             ELSE IF bodyMarshaler = NilCodec
                 THEN ProcessError(r, e, FALSE, FALSE,
                                   NewError("body marshaler is not set"), FALSE, "returned")
             ELSE IF Marshal(bodyMarshaler, body) # "none"
                 THEN ProcessError(r, hooked, FALSE, FALSE,
                                   Wrap("body marshaling", Marshal(bodyMarshaler, body)),
                                   FALSE, "returned")
             ELSE [hooked EXCEPT !.marshaled = TRUE, !.pc = "newRequest"])

\* lines 155-158, a mutant: the error of http.NewRequestWithContext is dropped
DoNewRequestIgnoreError(r) ==
    /\ exec[r].pc = "newRequest"
    /\ DoStep(r, [exec[r] EXCEPT !.reqMade = TRUE, !.pc = "headers"])

\* lines 155-158: http.NewRequestWithContext
DoNewRequest(r) ==
    LET e == exec[r]
    IN  /\ e.pc = "newRequest"
        /\ DoStep(r,
             IF requests[r].path = "::bad"
                 THEN ProcessError(r, e, FALSE, FALSE, NewError("parse url"),
                                   FALSE, "returned")
             ELSE [e EXCEPT !.reqMade = TRUE, !.pc = "headers"])

\* lines 160-164, a mutant: the configured headers are not set on the request
DoSetHeadersNone(r) ==
    /\ exec[r].pc = "headers"
    /\ DoStep(r, [Reading(r, exec[r]) EXCEPT !.pc = "hooks"])

\* lines 160-164: the configured headers are set on the request
DoSetHeaders(r) ==
    LET e == Reading(r, exec[r])
        o == options[requests[r].options]
    IN  /\ e.pc = "headers"
        /\ \E header \in RangeHeaders(HeadersOf(headerMaps, o)) :
              DoStep(r, [e EXCEPT !.reqHeader = header, !.pc = "hooks"])

\* lines 166-171, a mutant: the user's hook is appended before the
\* unmarshaler's
DoAppendHooksUserFirst(r) ==
    LET e == Reading(r, exec[r])
        o == options[requests[r].options]
        withR == IF o.OnRequestReady # NilHook
                    THEN Append(e.beforeRequestHooks,
                                [owner |-> "user", fn |-> o.OnRequestReady])
                    ELSE e.beforeRequestHooks
        withU == IF o.BodyUnmarshaler # NilCodec
                    THEN Append(withR, [owner |-> "unmarshaler", fn |-> o.BodyUnmarshaler])
                    ELSE withR
    IN  /\ e.pc = "hooks"
        /\ DoStep(r, [e EXCEPT !.beforeRequestHooks = withU, !.pc = "runHooks"])

\* lines 166-171, a mutant: the unmarshaler's hook is appended only when
\* WriteBodyTo was called
DoAppendHooksWhenRequested(r) ==
    LET e == Reading(r, exec[r])
        o == options[requests[r].options]
        withU == IF o.BodyUnmarshaler # NilCodec /\ requests[r].unmarshalResult
                    THEN Append(e.beforeRequestHooks,
                                [owner |-> "unmarshaler", fn |-> o.BodyUnmarshaler])
                    ELSE e.beforeRequestHooks
        withR == IF o.OnRequestReady # NilHook
                    THEN Append(withU, [owner |-> "user", fn |-> o.OnRequestReady])
                    ELSE withU
    IN  /\ e.pc = "hooks"
        /\ DoStep(r, [e EXCEPT !.beforeRequestHooks = withR, !.pc = "runHooks"])

\* lines 166-171: the unmarshaler's hook and the user's hook are appended
DoAppendHooks(r) ==
    LET e == Reading(r, exec[r])
        o == options[requests[r].options]
        withU == IF o.BodyUnmarshaler # NilCodec
                    THEN Append(e.beforeRequestHooks,
                                [owner |-> "unmarshaler", fn |-> o.BodyUnmarshaler])
                    ELSE e.beforeRequestHooks
        withR == IF o.OnRequestReady # NilHook
                    THEN Append(withU, [owner |-> "user", fn |-> o.OnRequestReady])
                    ELSE withU
    IN  /\ e.pc = "hooks"
        /\ DoStep(r, [e EXCEPT !.beforeRequestHooks = withR, !.pc = "runHooks"])

\* lines 172-176, a mutant: the error of a hook is dropped and the loop goes on
DoRunHookNoAbort(r) ==
    LET e == exec[r]
        hook == e.beforeRequestHooks[Len(e.hooksRun) + 1]
    IN  /\ e.pc = "runHooks"
        /\ Len(e.hooksRun) < Len(e.beforeRequestHooks)
        /\ DoStep(r, [e EXCEPT !.hooksRun = Append(@, hook.owner)])

\* lines 172-176, a mutant: a hook does not replace a header the request has
DoRunHookKeepsHeader(r) ==
    LET e == exec[r]
        hook == e.beforeRequestHooks[Len(e.hooksRun) + 1]
        ran == [e EXCEPT !.hooksRun = Append(@, hook.owner)]
        set == HookHeader(hook.owner, hook.fn)
    IN  /\ e.pc = "runHooks"
        /\ Len(e.hooksRun) < Len(e.beforeRequestHooks)
        /\ DoStep(r,
             IF HookResult(hook.fn) # "none"
                 THEN ProcessError(r, ran, TRUE, FALSE,
                                   Wrap("on request ready hook", HookResult(hook.fn)),
                                   FALSE, "returned")
             ELSE [ran EXCEPT !.reqHeader =
                        [k \in DOMAIN @ \cup DOMAIN set |->
                            IF k \in DOMAIN @ THEN @[k] ELSE set[k]]])

\* lines 172-176: one turn of the loop over beforeRequestHooks
DoRunHook(r) ==
    LET e == exec[r]
        hook == e.beforeRequestHooks[Len(e.hooksRun) + 1]
        ran == [e EXCEPT !.hooksRun = Append(@, hook.owner)]
        set == HookHeader(hook.owner, hook.fn)
    IN  /\ e.pc = "runHooks"
        /\ Len(e.hooksRun) < Len(e.beforeRequestHooks)
        /\ DoStep(r,
             IF HookResult(hook.fn) # "none"
                 THEN ProcessError(r, ran, TRUE, FALSE,
                                   Wrap("on request ready hook", HookResult(hook.fn)),
                                   FALSE, "returned")
             ELSE [ran EXCEPT !.reqHeader =
                        [k \in DOMAIN @ \cup DOMAIN set |->
                            IF k \in DOMAIN set THEN set[k] ELSE @[k]]])

\* the results of r.client.do: an error and no response, or a response with
\* a status, a status text and a body
StatusCodes == {199, 200, 299, 300, 404}
StatusTexts == {<<"OK">>, <<>>}
Contents == {"json", "text"}
TransportError == [err |-> TRUE, StatusCode |-> 0, Status |-> <<>>, content |-> "text"]
TransportResults ==
    {TransportError} \cup
    [err : {FALSE}, StatusCode : StatusCodes, Status : StatusTexts, content : Contents]

\* lines 178-196, a mutant: after a transport error the request is sent a
\* second time
DoDispatchRetry(r, result) ==
    LET e == exec[r]
        sent == [e EXCEPT !.dispatches = @ + 1, !.deferred = TRUE]
    IN  /\ e.pc = "runHooks"
        /\ Len(e.hooksRun) = Len(e.beforeRequestHooks)
        /\ DoStep(r,
             IF result.err /\ e.dispatches = 0 THEN sent
             ELSE IF result.err
                 THEN ProcessError(r, sent, TRUE, FALSE, NewError("transport error"),
                                   FALSE, "deferred")
             ELSE [sent EXCEPT !.resp = [present    |-> TRUE,
                                         StatusCode |-> result.StatusCode,
                                         Status     |-> result.Status,
                                         Body       |-> 1],
                               !.bodies = <<[closed |-> 0, read |-> FALSE, nop |-> FALSE,
                                             content |-> result.content]>>,
                               !.pc = "responseHook"])

\* lines 178-196: the request is sent, the closing of the body is deferred,
\* a transport error is returned
DoDispatch(r, result) ==
    LET e == exec[r]
        sent == [e EXCEPT !.dispatches = @ + 1, !.deferred = TRUE]
    IN  /\ e.pc = "runHooks"
        /\ Len(e.hooksRun) = Len(e.beforeRequestHooks)
        /\ DoStep(r,
             IF result.err
                 THEN ProcessError(r, sent, TRUE, FALSE, NewError("transport error"),
                                   FALSE, "deferred")
             ELSE [sent EXCEPT !.resp = [present    |-> TRUE,
                                         StatusCode |-> result.StatusCode,
                                         Status     |-> result.Status,
                                         Body       |-> 1],
                               !.bodies = <<[closed |-> 0, read |-> FALSE, nop |-> FALSE,
                                             content |-> result.content]>>,
                               !.pc = "responseHook"])

\* lines 198-206, a mutant: the error of the response-ready hook is dropped
DoResponseHookNoAbort(r) ==
    LET hook == options[requests[r].options].OnResponseReady
    IN  /\ exec[r].pc = "responseHook"
        /\ DoStep(r, [Reading(r, exec[r]) EXCEPT
                         !.responseHookRuns = IF hook # NilHook THEN @ + 1 ELSE @,
                         !.pc = "status"])

\* lines 198-206, a mutant: the hook is called for a 2xx response only
DoResponseHookSuccessOnly(r) ==
    LET e == Reading(r, exec[r])
        hook == options[requests[r].options].OnResponseReady
        ran == [e EXCEPT !.responseHookRuns = @ + 1]
    IN  /\ e.pc = "responseHook"
        /\ DoStep(r,
             IF hook = NilHook \/ ~IsSuccessResponse(e.resp)
                 THEN [e EXCEPT !.pc = "status"]
             ELSE IF HookResult(hook) # "none"
                 THEN ProcessError(r, ran, TRUE, TRUE,
                                   Wrap("on response ready hook", HookResult(hook)),
                                   TRUE, "deferred")
             ELSE [ran EXCEPT !.pc = "status"])

\* lines 198-206: the response-ready hook
DoResponseHook(r) ==
    LET e == Reading(r, exec[r])
        hook == options[requests[r].options].OnResponseReady
        ran == [e EXCEPT !.responseHookRuns = @ + 1]
    IN  /\ e.pc = "responseHook"
        /\ DoStep(r,
             IF hook = NilHook THEN [e EXCEPT !.pc = "status"]
             ELSE IF HookResult(hook) # "none"
                 THEN ProcessError(r, ran, TRUE, TRUE,
                                   Wrap("on response ready hook", HookResult(hook)),
                                   TRUE, "deferred")
             ELSE [ran EXCEPT !.pc = "status"])

\* the error of lines 209
StatusError(resp) ==
    [NoError EXCEPT !.msg = "status", !.code = resp.StatusCode, !.status = resp.Status]

\* lines 208-211, a mutant: the status is not tested
DoCheckStatusSkipped(r) ==
    /\ exec[r].pc = "status"
    /\ DoStep(r, [exec[r] EXCEPT !.pc = "unmarshal"])

\* lines 208-211: the status check
DoCheckStatus(r) ==
    LET e == exec[r]
    IN  /\ e.pc = "status"
        /\ DoStep(r,
             IF ~IsSuccessResponse(e.resp)
                 THEN ProcessError(r, e, TRUE, TRUE, StatusError(e.resp), TRUE, "deferred")
             ELSE [e EXCEPT !.pc = "unmarshal"])

\* lines 213-223, a mutant: a nil unmarshaler is not tested for
DoUnmarshalNoCheck(r) ==
    LET e == IF requests[r].unmarshalResult THEN Reading(r, exec[r]) ELSE exec[r]
        success == [returned |-> TRUE, resp |-> TRUE, err |-> NoError]
    IN  /\ e.pc = "unmarshal"
        /\ DoStep(r, [e EXCEPT !.ret = success, !.pc = "deferred"])

\* lines 213-223: the body is unmarshaled when WriteBodyTo asked for it
DoUnmarshal(r) ==
    LET e == IF requests[r].unmarshalResult THEN Reading(r, exec[r]) ELSE exec[r]
        u == options[requests[r].options].BodyUnmarshaler
        body == e.bodies[e.resp.Body]
        result == Unmarshal(u, requests[r].unmarshalResultTo, body.content)
        read == [e EXCEPT !.bodies[e.resp.Body].read = TRUE]
        success == [returned |-> TRUE, resp |-> TRUE, err |-> NoError]
    IN  /\ e.pc = "unmarshal"
        /\ DoStep(r,
             IF ~requests[r].unmarshalResult
                 THEN [e EXCEPT !.ret = success, !.pc = "deferred"]
             ELSE IF u = NilCodec
                 THEN ProcessError(r, e, TRUE, TRUE,
                        NewError("result destination is provided but body unmarshaler is not set"),
                        TRUE, "deferred")
             ELSE IF result # "none"
                 THEN ProcessError(r, read, TRUE, TRUE,
                                   Wrap("body unmarshaling", result), TRUE, "deferred")
             ELSE [read EXCEPT !.destWritten = TRUE, !.ret = success, !.pc = "deferred"])

\* lines 181-192, a mutant: the deferred function never closes the body
DeferredCloseNever(r, e) ==
    IF ~requests[r].unmarshalResult THEN [e EXCEPT !.pc = "returned"]
    ELSE IF ~e.resp.present THEN [e EXCEPT !.pc = "panicked"]
    ELSE [e EXCEPT !.pc = "returned"]

\* lines 181-192, a mutant: the body is closed whether or not WriteBodyTo
\* was called
DeferredCloseAlways(r, e) ==
    IF ~e.resp.present THEN [e EXCEPT !.pc = "panicked"]
    ELSE [e EXCEPT !.bodies[e.resp.Body].closed = @ + 1, !.pc = "returned"]

\* lines 181-192: the deferred function.  resp.Body.Close() on a nil resp
\* is a nil pointer dereference: the goroutine panics and Do returns nothing.
DeferredClose(r, e) ==
    IF ~requests[r].unmarshalResult THEN [e EXCEPT !.pc = "returned"]
    ELSE IF ~e.resp.present THEN [e EXCEPT !.pc = "panicked"]
    ELSE [e EXCEPT !.bodies[e.resp.Body].closed = @ + 1, !.pc = "returned"]

DoDeferred(r) ==
    /\ exec[r].pc = "deferred"
    /\ DoStep(r, DeferredClose(r, exec[r]))

\* r.Do() called on a Request whose Do has returned: Do tests nothing and
\* writes no field of the Request, its locals are new.  What the Request has
\* read and written of the options, and its destination, remain.
DoAgain(r) ==
    /\ exec[r].pc = "returned"
    /\ exec[r].finished + 1 < MaxDo
    /\ DoStep(r, [NotStarted EXCEPT !.finished = exec[r].finished + 1,
                                    !.read = exec[r].read,
                                    !.written = exec[r].written,
                                    !.destWritten = exec[r].destWritten])

(***************************************************************************)
(* SpecDo: one call of Do.  The client is configured and the Request is    *)
(* built before the first state: every RequestOptions value of DoOptions   *)
(* is one that setter calls give the RequestOptions of NewHttpClient, and  *)
(* every Request of DoRequests is one that a factory and WriteBodyTo       *)
(* give.  The steps are the statements of Do.                              *)
(***************************************************************************)
DoHeaders == [k \in {"X-A", "X-B"} |-> "v1"]

DoOptions ==
    [BodyMarshaler     : Codecs \cup {NilCodec},
     BodyUnmarshaler   : Codecs \cup {NilCodec},
     Headers           : {Nil, 1},   \* nil, or the map DoHeaders
     OnRequestReady    : Hooks \cup {NilHook},
     OnResponseReady   : Hooks \cup {NilHook},
     OnErrorHooks      : {<<>>, <<DumpHook>>},
     StackTraceEnabled : BOOLEAN]

DoRequests ==
    [client            : {1},
     method            : {"GET"},
     path              : Paths,
     ctx               : {"background"},
     body              : {NilBody},
     unmarshalResultTo : {"nil"},
     unmarshalResult   : {FALSE},
     options           : {1}]
    \cup
    [client            : {1},
     method            : {"GET", "POST"},
     path              : {"http://ok"},
     ctx               : {"background"},
     body              : {NilBody} \cup Bodies,
     unmarshalResultTo : Destinations,
     unmarshalResult   : BOOLEAN,
     options           : {1}]

InitDo ==
    /\ clients = <<NewHttpClient(1)>>
    /\ \E o \in DoOptions :
          /\ options = <<o>>
          /\ headerMaps = IF o.Headers = Nil THEN <<>> ELSE <<DoHeaders>>
    /\ \E q \in DoRequests :
          /\ q.method = "GET" <=> q.body = NilBody
          /\ q.unmarshalResult \/ q.unmarshalResultTo = "nil"
          /\ requests = <<q>>
    /\ exec = <<NotStarted>>
    /\ calls = 0
    /\ lastCall = NoCall
    /\ hist = [clientHeaders |-> <<HeadersOf(headerMaps, options[1])>>,
               requestHeaders |-> <<EmptyMap>>,
               lastWrite |-> <<HeadersOf(headerMaps, options[1])>>,
               dumpCalls |-> Len(options[1].OnErrorHooks)]
    /\ codec = NoCodecCall

NextDo ==
    \E r \in RequestIds :
        \/ DoMarshalBody(r)
        \/ DoNewRequest(r)
        \/ DoSetHeaders(r)
        \/ DoAppendHooks(r)
        \/ DoRunHook(r)
        \/ \E t \in TransportResults : DoDispatch(r, t)
        \/ DoResponseHook(r)
        \/ DoCheckStatus(r)
        \/ DoUnmarshal(r)
        \/ DoDeferred(r)

SpecDo == InitDo /\ [][NextDo]_vars

\* SpecReuse: calls of Do on one Request, one after the other
NextReuse ==
    \/ NextDo
    \/ \E r \in RequestIds : DoAgain(r)

SpecReuse == InitDo /\ [][NextReuse]_vars

(***************************************************************************)
(* SpecShared: Requests of one client, each made, configured and run by a  *)
(* thread of its own.  The steps of the threads interleave: a setter call  *)
(* is one step, and so is each statement group of Do.                      *)
(***************************************************************************)
SharedKeys == {"X-A", "X-B"}
SharedResults ==
    {TransportError,
     [err |-> FALSE, StatusCode |-> 200, Status |-> <<"OK">>, content |-> "json"]}

NextShared ==
    \/ NewGetRequest(1, "background", "http://ok")
    \/ \E k \in SharedKeys, v \in HeaderValues : HttpClientSetHeader(1, k, v)
    \/ \E r \in RequestIds :
          \/ \E k \in SharedKeys, v \in HeaderValues : RequestSetHeader(r, k, v)
          \/ RequestSetDumpOnError(r)
          \/ DoMarshalBody(r)
          \/ DoNewRequest(r)
          \/ DoSetHeaders(r)
          \/ DoAppendHooks(r)
          \/ DoRunHook(r)
          \/ \E t \in SharedResults : DoDispatch(r, t)
          \/ DoResponseHook(r)
          \/ DoCheckStatus(r)
          \/ DoUnmarshal(r)
          \/ DoDeferred(r)

SpecShared == Init /\ [][NextShared]_vars

(***************************************************************************)
(* Request-level setters and the client (C1, C2).                          *)
(***************************************************************************)

\* r.SetHeader or r.SetHeaders is called, with any arguments
RequestHeaderCall(r) ==
    \/ \E k \in HeaderKeys, v \in HeaderValues : RequestSetHeader(r, k, v)
    \/ \E h \in HeaderArgs : RequestSetHeaders(r, h)

\* one of the other request-level setters is called, with any argument
RequestOtherCall(r) ==
    \/ \E m \in Codecs \cup {NilCodec} : RequestSetBodyMarshaler(r, m)
    \/ \E u \in Codecs \cup {NilCodec} : RequestSetBodyUnmarshaler(r, u)
    \/ \E h \in Hooks \cup {NilHook} : RequestSetOnRequestReady(r, h)
    \/ \E h \in Hooks \cup {NilHook} : RequestSetOnResponseReady(r, h)
    \/ RequestSetDumpOnError(r)
    \/ \E b \in BOOLEAN : RequestSetStackTraceEnabled(r, b)

\* the fields of a RequestOptions other than Headers
Settings(o) ==
    <<o.BodyMarshaler, o.BodyUnmarshaler, o.OnRequestReady, o.OnResponseReady,
      o.OnErrorHooks, o.StackTraceEnabled>>

\* C1: for every client c and every Request r created from c, a call of
\* r.SetHeader or r.SetHeaders leaves the header map of c exactly as it was
\* before the call.
C1_RequestHeadersLeaveClient ==
    [][\A r \in RequestIds :
          RequestHeaderCall(r) =>
              ClientHeaders(requests[r].client)' = ClientHeaders(requests[r].client)]_vars

\* C2: for every client c and every Request r created from c, a call of
\* r.SetBodyMarshaler, r.SetBodyUnmarshaler, r.SetOnRequestReady,
\* r.SetOnResponseReady, r.SetDumpOnError or r.SetStackTraceEnabled leaves the
\* marshaler, the unmarshaler, the two hooks, the error-hook list and the
\* StackTraceEnabled flag of c unchanged.
C2_RequestSettersLeaveClient ==
    [][\A r \in RequestIds :
          RequestOtherCall(r) =>
              Settings(ClientOptions(requests[r].client))'
                  = Settings(ClientOptions(requests[r].client))]_vars

(***************************************************************************)
(* Requests of one client (C3, C4, C5).                                    *)
(***************************************************************************)

\* the headers given to the client of r through the client's setters, and
\* those given to r through its own
ClientGiven(r) == hist.clientHeaders[requests[r].client]
RequestGiven(r) == hist.requestHeaders[r]

\* the header map given has an entry for the header named as key k names it
Names(given, k) == \E j \in DOMAIN given : Canonical(j) = Canonical(k)

\* C3: a setting applied through the request-level setters of r1 is not in
\* effect when the Do of another Request r2 of the same client runs: every
\* header Do sets on the request of r2 was given to the client through the
\* client's setters or to r2 through r2's setters.
C3_RequestSettingsStayLocal ==
    [][\A r2 \in RequestIds :
          DoSetHeaders(r2) =>
              \A k \in DOMAIN exec'[r2].reqHeader :
                  \E given \in {ClientGiven(r2), RequestGiven(r2)} :
                      \E j \in DOMAIN given :
                          /\ Canonical(j) = k
                          /\ given[j] = exec'[r2].reqHeader[k]]_vars

\* C4: when two threads each make a Request of the same client, call its
\* setters and run its Do, no thread writes a RequestOptions, or the header
\* map of one, that the Request of the other thread reads or writes.
C4_NoSharedOptionsAccess ==
    \A r1 \in RequestIds : \A r2 \in RequestIds \ {r1} :
        exec[r1].written \cap (exec[r2].read \cup exec[r2].written) = {}

\* C5: the headers Do sets on the request are the merge of the headers given
\* to the client and those given to the Request: a header given to the
\* Request has the value the Request was given, a header given to the client
\* alone has the value the client was given.
C5_HeadersMerged ==
    [][\A r \in RequestIds :
          DoSetHeaders(r) =>
              /\ \A k \in DOMAIN RequestGiven(r) :
                    /\ Canonical(k) \in DOMAIN exec'[r].reqHeader
                    /\ exec'[r].reqHeader[Canonical(k)] = RequestGiven(r)[k]
              /\ \A k \in DOMAIN ClientGiven(r) :
                    ~Names(RequestGiven(r), k) =>
                        /\ Canonical(k) \in DOMAIN exec'[r].reqHeader
                        /\ exec'[r].reqHeader[Canonical(k)] = ClientGiven(r)[k]]_vars

(***************************************************************************)
(* Clone (C6, C7).                                                         *)
(***************************************************************************)

\* c.SetHeader, c.SetHeaders or c.SetTimeout is called, with any arguments
ClientHeaderOrTimeoutCall(c) ==
    \/ \E k \in HeaderKeys, v \in HeaderValues : HttpClientSetHeader(c, k, v)
    \/ \E h \in HeaderArgs : HttpClientSetHeaders(c, h)
    \/ \E t \in Timeouts \cup {DefaultTimeout} : HttpClientSetTimeout(c, t)

\* one of the other client-level setters is called, with any argument
ClientOtherCall(c) ==
    \/ \E m \in Codecs \cup {NilCodec} : HttpClientSetBodyMarshaler(c, m)
    \/ \E u \in Codecs \cup {NilCodec} : HttpClientSetBodyUnmarshaler(c, u)
    \/ \E h \in Hooks \cup {NilHook} : HttpClientSetOnRequestReady(c, h)
    \/ \E h \in Hooks \cup {NilHook} : HttpClientSetOnResponseReady(c, h)
    \/ HttpClientSetDumpOnError(c)
    \/ \E b \in BOOLEAN : HttpClientSetStackTraceEnabled(c, b)

\* SpecClients: clients alone are configured and cloned.
NextClients ==
    \/ \E c \in ClientIds : Clone(c)
    \/ ClientSetter

SpecClients == Init /\ [][NextClients]_vars

\* C6: every client but the first is a clone; a call of SetHeader, SetHeaders
\* or SetTimeout on one client leaves the headers and the timeout every other
\* client observes unchanged, the original's as well as the clone's.
C6_CloneHeadersTimeoutIndependent ==
    [][\A c \in ClientIds :
          ClientHeaderOrTimeoutCall(c) =>
              \A d \in ClientIds \ {c} :
                  /\ ClientHeaders(d)' = ClientHeaders(d)
                  /\ clients'[d].timeout = clients[d].timeout]_vars

\* an original with headers and its clone, one of them changed since Clone:
\* the two observe different headers
C6_Witness ==
    /\ Len(clients) >= 2
    /\ ClientHeaders(1) # EmptyMap
    /\ ClientHeaders(2) # EmptyMap
    /\ ClientHeaders(1) # ClientHeaders(2)

\* C7: a call of SetBodyMarshaler, SetBodyUnmarshaler, SetOnRequestReady,
\* SetOnResponseReady, SetDumpOnError or SetStackTraceEnabled on one client
\* leaves the codecs, the two hooks, the error-hook list and the
\* StackTraceEnabled flag of every other client unchanged.
C7_CloneSettingsIndependent ==
    [][\A c \in ClientIds :
          ClientOtherCall(c) =>
              \A d \in ClientIds \ {c} :
                  Settings(ClientOptions(d))' = Settings(ClientOptions(d))]_vars

\* an original and its clone whose error-hook lists differ in length: the
\* dump hook was installed on one of them after Clone
C7_Witness ==
    /\ Len(clients) >= 2
    /\ Len(ClientOptions(1).OnErrorHooks) # Len(ClientOptions(2).OnErrorHooks)
    /\ ClientOptions(1).StackTraceEnabled # ClientOptions(2).StackTraceEnabled

(***************************************************************************)
(* Do: ready-hook failure, status check, closing of the body (C8-C10).     *)
(***************************************************************************)

\* sub occurs in text
Contains(text, sub) ==
    \E i \in 1..(Len(text) - Len(sub) + 1) : SubSeq(text, i, i + Len(sub) - 1) = sub

\* the hooks and codecs whose OnRequestReady returns an error
FailingHooks == {"UserCodec", "HookFails"}

\* C8: if a request-ready hook (the marshaler's, the unmarshaler's or the
\* user's) that Do ran returned an error, the transport was not invoked, Do
\* returned an absent response and the returned error wraps the hook's error:
\* the hook's error is its cause and its text holds the hook's error text.
C8_ReadyHookFailureAborts ==
    \A r \in RequestIds :
        \A i \in 1..Len(exec[r].hooksRun) :
            exec[r].beforeRequestHooks[i].fn \in FailingHooks =>
                /\ exec[r].dispatches = 0
                /\ exec[r].pc = "returned"
                /\ exec[r].ret.returned
                /\ ~exec[r].ret.resp
                /\ exec[r].ret.err.msg = "on request ready hook"
                /\ exec[r].ret.err.cause = exec[r].beforeRequestHooks[i].fn
                /\ Contains(ErrorText(exec[r].ret.err),
                            <<exec[r].beforeRequestHooks[i].fn>>)

\* the marshaler's and the unmarshaler's hooks ran and succeeded, then the
\* user's hook ran and failed
C8_Witness ==
    \E r \in RequestIds :
        /\ exec[r].hooksRun = <<"marshaler", "unmarshaler", "user">>
        /\ exec[r].beforeRequestHooks[3].fn = "HookFails"
        /\ exec[r].pc = "returned"

\* Do received a response and is past the status check, and the
\* response-ready hook did not fail
PastStatusCheck(r) ==
    /\ exec[r].resp.present
    /\ exec[r].pc \in {"unmarshal", "deferred", "returned"}
    /\ exec[r].ret.err.msg # "on response ready hook"

\* C9: for every response whose response-ready hook (if any) succeeded: a
\* status code in [200,300) produces no status error; a status code outside
\* [200,300) makes Do return an error whose text contains the code in
\* decimal, together with the response.
C9_StatusCheck ==
    \A r \in RequestIds :
        PastStatusCheck(r) =>
            IF exec[r].resp.StatusCode >= 200 /\ exec[r].resp.StatusCode < 300
                THEN exec[r].ret.err.msg # "status"
                ELSE /\ exec[r].ret.returned
                     /\ exec[r].ret.err # NoError
                     /\ exec[r].ret.err.msg = "status"
                     /\ Contains(ErrorText(exec[r].ret.err), Itoa(exec[r].resp.StatusCode))
                     /\ exec[r].ret.resp

\* Do returned the status error of a response with status 300, enriched
\* with a stack trace
C9_Witness ==
    \E r \in RequestIds :
        /\ exec[r].pc = "returned"
        /\ exec[r].resp.StatusCode = 300
        /\ exec[r].ret.err.msg = "status"
        /\ exec[r].ret.err.stack
        /\ exec[r].ret.resp

\* C10: when WriteBodyTo was called, the body the transport gave, if there is
\* one, is never closed twice and is closed exactly once when Do has returned,
\* whatever the outcome after dispatch.
C10_BodyClosedOnce ==
    \A r \in RequestIds :
        (requests[r].unmarshalResult /\ Len(exec[r].bodies) >= 1) =>
            /\ exec[r].bodies[1].closed <= 1
            /\ exec[r].pc = "returned" => exec[r].bodies[1].closed = 1

\* Do returned after a decode failure on which the dump hook ran: the dump
\* closed the transport's body and put a buffer in its place
C10_Witness ==
    \E r \in RequestIds :
        /\ requests[r].unmarshalResult
        /\ exec[r].pc = "returned"
        /\ exec[r].ret.err.msg = "body unmarshaling"
        /\ Len(exec[r].errorHookCalls) = 1
        /\ Len(exec[r].bodies) = 2
        /\ exec[r].bodies[1].closed = 1

(***************************************************************************)
(* Do: transport failure, the body when no decoding was asked (C11, C12).  *)
(***************************************************************************)

\* r.client.do was called and returned an error and no response
TransportFailed(r) == exec[r].dispatches = 1 /\ ~exec[r].resp.present

\* C11: whenever the transport fails, with or without WriteBodyTo, Do
\* completes and returns an absent response and the transport's error, and
\* the error hooks are called with an absent response and the original body.
C11_TransportFailureReturned ==
    \A r \in RequestIds :
        TransportFailed(r) =>
            /\ exec[r].pc \in {"deferred", "returned"}
            /\ exec[r].ret.returned
            /\ ~exec[r].ret.resp
            /\ exec[r].ret.err.msg = "transport error"
            /\ \A i \in 1..Len(exec[r].errorHookCalls) :
                  /\ ~exec[r].errorHookCalls[i].resp
                  /\ exec[r].errorHookCalls[i].body = requests[r].body

NextSetters ==
    \/ ClientSetter
    \/ Factory
    \/ RequestSetter

SpecSetters == Init /\ [][NextSetters]_vars

\* C13: a call of SetDumpOnError, on a client or on a Request, whatever was
\* called before, leaves exactly one hook in the error-hook list it acts on.
C13_DumpOnErrorSingleHook ==
    [][/\ \A c \in ClientIds :
             HttpClientSetDumpOnError(c) => Len(ClientOptions(c).OnErrorHooks)' = 1
       /\ \A r \in RequestIds :
             RequestSetDumpOnError(r) =>
                 Len(options[requests[r].options].OnErrorHooks)' = 1]_vars

\* SetDumpOnError was called twice on the one RequestOptions there is
C13_Witness ==
    /\ hist.dumpCalls = 2
    /\ Len(options) = 1
    /\ Len(options[1].OnErrorHooks) = 1

(***************************************************************************)
(* Do: missing codecs, response-ready hook failure (C14, C15, C16).        *)
(***************************************************************************)

\* the RequestOptions r.options points to
RequestOptionsOf(r) == options[requests[r].options]

NoUnmarshaler == "result destination is provided but body unmarshaler is not set"

\* C14: when WriteBodyTo was called, no unmarshaler is set and the response
\* has a success status and passed the response-ready hook, Do returns the
\* response with an error whose text names the missing unmarshaler; the
\* request was dispatched once and the destination is not written.
C14_MissingUnmarshaler ==
    \A r \in RequestIds :
        (/\ requests[r].unmarshalResult
         /\ RequestOptionsOf(r).BodyUnmarshaler = NilCodec
         /\ exec[r].resp.present
         /\ exec[r].resp.StatusCode >= 200 /\ exec[r].resp.StatusCode < 300
         /\ exec[r].pc \in {"deferred", "returned"}
         /\ exec[r].ret.err.msg # "on response ready hook") =>
            /\ exec[r].ret.returned
            /\ exec[r].ret.resp
            /\ exec[r].ret.err # NoError
            /\ Contains(ErrorText(exec[r].ret.err), <<NoUnmarshaler>>)
            /\ exec[r].dispatches = 1
            /\ ~exec[r].destWritten

\* Do returned the missing-unmarshaler error together with the response
C14_Witness ==
    \E r \in RequestIds :
        /\ requests[r].unmarshalResult
        /\ exec[r].pc = "returned"
        /\ exec[r].ret.resp
        /\ exec[r].ret.err.msg = NoUnmarshaler
        /\ exec[r].resp.StatusCode = 299

\* C15: with a body and no marshaler, Do fails first of all: an absent
\* response, an error naming the missing marshaler, no request made, no
\* ready-hook run, no dispatch.  With no body a missing marshaler is no
\* error and Do goes on to make the request.
C15_MissingMarshaler ==
    \A r \in RequestIds :
        (RequestOptionsOf(r).BodyMarshaler = NilCodec /\ exec[r].pc # "built") =>
            IF requests[r].body # NilBody
                THEN /\ exec[r].pc = "returned"
                     /\ exec[r].ret.returned
                     /\ ~exec[r].ret.resp
                     /\ Contains(ErrorText(exec[r].ret.err), <<"body marshaler is not set">>)
                     /\ ~exec[r].reqMade
                     /\ exec[r].hooksRun = <<>>
                     /\ exec[r].dispatches = 0
                ELSE /\ exec[r].ret.err.msg # "body marshaler is not set"
                     /\ \/ exec[r].pc = "newRequest"
                        \/ exec[r].reqMade
                        \/ exec[r].ret.err.msg = "parse url"

\* Do returned the missing-marshaler error for a Request with a body and an
\* unmarshaler whose ready-hook was not run
C15_Witness ==
    \E r \in RequestIds :
        /\ requests[r].body = "struct"
        /\ RequestOptionsOf(r).BodyMarshaler = NilCodec
        /\ RequestOptionsOf(r).BodyUnmarshaler = "JSON"
        /\ exec[r].pc = "returned"
        /\ exec[r].ret.err.msg = "body marshaler is not set"

\* the response-ready hook of r was called and returned an error
ResponseHookFailed(r) ==
    /\ exec[r].resp.present
    /\ exec[r].pc # "responseHook"
    /\ HookResult(RequestOptionsOf(r).OnResponseReady) # "none"

\* C16: when the response-ready hook fails, Do returns the response with an
\* error that wraps the hook's error; the status is not checked and the body
\* is not decoded.
C16_ResponseHookFailure ==
    \A r \in RequestIds :
        ResponseHookFailed(r) =>
            /\ exec[r].pc \in {"deferred", "returned"}
            /\ exec[r].ret.returned
            /\ exec[r].ret.resp
            /\ exec[r].ret.err.msg = "on response ready hook"
            /\ exec[r].ret.err.cause = HookResult(RequestOptionsOf(r).OnResponseReady)
            /\ Contains(ErrorText(exec[r].ret.err),
                        <<HookResult(RequestOptionsOf(r).OnResponseReady)>>)
            /\ ~exec[r].destWritten

\* the hook failed on a response with status 404 for which WriteBodyTo was
\* called: neither a status error nor a decoding followed
C16_Witness ==
    \E r \in RequestIds :
        /\ ResponseHookFailed(r)
        /\ requests[r].unmarshalResult
        /\ exec[r].resp.StatusCode = 404
        /\ exec[r].pc = "returned"

(***************************************************************************)
(* Do: failures before dispatch, single attempt, error hooks, stack trace  *)
(* (C17-C20).                                                              *)
(***************************************************************************)

\* what the arguments of Do decide: the body is encoded, the request is
\* made, the ready-hooks Do registers all succeed
EncodeOK(r) ==
    \/ requests[r].body = NilBody
    \/ /\ RequestOptionsOf(r).BodyMarshaler # NilCodec
       /\ Marshal(RequestOptionsOf(r).BodyMarshaler, requests[r].body) = "none"

EncodeFails(r) ==
    /\ requests[r].body # NilBody
    /\ RequestOptionsOf(r).BodyMarshaler # NilCodec
    /\ Marshal(RequestOptionsOf(r).BodyMarshaler, requests[r].body) # "none"

ConstructOK(r) == requests[r].path # "::bad"

ReadyHooksOK(r) ==
    /\ requests[r].body # NilBody => HookResult(RequestOptionsOf(r).BodyMarshaler) = "none"
    /\ HookResult(RequestOptionsOf(r).BodyUnmarshaler) = "none"
    /\ HookResult(RequestOptionsOf(r).OnRequestReady) = "none"

\* what Do returns when it fails before the ready-hooks
FailedEarly(r) ==
    /\ exec[r].pc = "returned"
    /\ exec[r].ret.returned
    /\ ~exec[r].ret.resp
    /\ exec[r].ret.err # NoError
    /\ exec[r].hooksRun = <<>>
    /\ exec[r].dispatches = 0

\* C17: when the encoding of the body or the making of the request fails, Do
\* returns an absent response and an error, runs no ready-hook and does not
\* call the transport; on an encoding failure the error hooks are called
\* with an absent request, an absent response and the body the caller gave.
C17_EncodeOrConstructFailure ==
    \A r \in RequestIds :
        /\ (EncodeFails(r) /\ exec[r].pc # "built") =>
              /\ FailedEarly(r)
              /\ exec[r].ret.err.msg = "body marshaling"
              /\ Len(exec[r].errorHookCalls) = Len(RequestOptionsOf(r).OnErrorHooks)
              /\ \A i \in 1..Len(exec[r].errorHookCalls) :
                    /\ ~exec[r].errorHookCalls[i].req
                    /\ ~exec[r].errorHookCalls[i].resp
                    /\ exec[r].errorHookCalls[i].body = requests[r].body
        /\ (EncodeOK(r) /\ ~ConstructOK(r) /\ exec[r].pc \notin {"built", "newRequest"}) =>
              /\ FailedEarly(r)
              /\ exec[r].ret.err.msg = "parse url"

\* the Noop marshaler refused a struct body and the dump hook was called
C17_Witness ==
    \E r \in RequestIds :
        /\ EncodeFails(r)
        /\ requests[r].body = "struct"
        /\ exec[r].pc = "returned"
        /\ Len(exec[r].errorHookCalls) = 1

\* C18: Do calls the transport at most once; when Do has ended it has called
\* it exactly once if and only if the encoding, the making of the request
\* and every ready-hook succeeded.
C18_SingleAttempt ==
    \A r \in RequestIds :
        /\ exec[r].dispatches <= 1
        /\ exec[r].pc \in {"returned", "panicked"} =>
              (exec[r].dispatches = 1 <=>
                  (EncodeOK(r) /\ ConstructOK(r) /\ ReadyHooksOK(r)))

\* Do ended with a transport error after one dispatch
C18_Witness ==
    \E r \in RequestIds :
        /\ exec[r].pc = "returned"
        /\ exec[r].dispatches = 1
        /\ exec[r].ret.err.msg = "transport error"

\* C19: a Do that returns an error has called each registered error hook
\* once, with the error it returns and the body the caller gave; a Do that
\* returns no error has called no error hook.
C19_ErrorHooksOnce ==
    \A r \in RequestIds :
        /\ Len(exec[r].errorHookCalls) <= Len(RequestOptionsOf(r).OnErrorHooks)
        /\ exec[r].pc = "returned" =>
              IF exec[r].ret.err # NoError
                  THEN /\ Len(exec[r].errorHookCalls) = Len(RequestOptionsOf(r).OnErrorHooks)
                       /\ \A i \in 1..Len(exec[r].errorHookCalls) :
                             /\ exec[r].errorHookCalls[i].hook
                                    = RequestOptionsOf(r).OnErrorHooks[i]
                             /\ exec[r].errorHookCalls[i].err = exec[r].ret.err
                             /\ exec[r].errorHookCalls[i].body = requests[r].body
                  ELSE exec[r].errorHookCalls = <<>>

\* Do returned a decoding error with a stack trace, and the hook was called
\* with it and the body of the Request
C19_Witness ==
    \E r \in RequestIds :
        /\ exec[r].pc = "returned"
        /\ exec[r].ret.err.msg = "body unmarshaling"
        /\ exec[r].ret.err.stack
        /\ requests[r].body = "string"
        /\ Len(exec[r].errorHookCalls) = 1

\* C20: the error Do returns carries a stack trace if and only if
\* StackTraceEnabled is set; with it the text is the message followed by the
\* stack trace section, without it the text is the message alone.
C20_StackTraceIffEnabled ==
    \A r \in RequestIds :
        (exec[r].pc = "returned" /\ exec[r].ret.err # NoError) =>
            LET err == exec[r].ret.err
                text == ErrorText(err)
                message == ErrorMessage([err EXCEPT !.stack = FALSE])
            IN  /\ err.stack <=> RequestOptionsOf(r).StackTraceEnabled
                /\ IF RequestOptionsOf(r).StackTraceEnabled
                       THEN text = message \o <<"\nStack trace:\n", "<stack>">>
                       ELSE text = message

\* Do returned the missing-marshaler error with a stack trace and no error
\* hook installed
C20_Witness ==
    \E r \in RequestIds :
        /\ exec[r].pc = "returned"
        /\ exec[r].ret.err.msg = "body marshaler is not set"
        /\ exec[r].ret.err.stack
        /\ RequestOptionsOf(r).OnErrorHooks = <<>>

(***************************************************************************)
(* Do: the order of the ready-hooks (C21).                                 *)
(***************************************************************************)

\* the ready-hooks the configuration of r calls for, in the order claimed
ExpectedHooks(r) ==
    (IF requests[r].body # NilBody /\ RequestOptionsOf(r).BodyMarshaler # NilCodec
        THEN <<[owner |-> "marshaler", fn |-> RequestOptionsOf(r).BodyMarshaler]>>
        ELSE <<>>)
    \o (IF RequestOptionsOf(r).BodyUnmarshaler # NilCodec
        THEN <<[owner |-> "unmarshaler", fn |-> RequestOptionsOf(r).BodyUnmarshaler]>>
        ELSE <<>>)
    \o (IF RequestOptionsOf(r).OnRequestReady # NilHook
        THEN <<[owner |-> "user", fn |-> RequestOptionsOf(r).OnRequestReady]>>
        ELSE <<>>)

\* C21: the ready-hooks are registered and run in the order marshaler's (with
\* a body only), unmarshaler's, user's; each runs at most once, and no hook
\* runs after one that failed.
C21_ReadyHookOrder ==
    \A r \in RequestIds :
        /\ exec[r].beforeRequestHooks
              = SubSeq(ExpectedHooks(r), 1, Len(exec[r].beforeRequestHooks))
        /\ (exec[r].reqMade /\ exec[r].pc \notin {"headers", "hooks"}) =>
              exec[r].beforeRequestHooks = ExpectedHooks(r)
        /\ Len(exec[r].hooksRun) <= Len(ExpectedHooks(r))
        /\ \A i \in 1..Len(exec[r].hooksRun) :
              /\ exec[r].hooksRun[i] = ExpectedHooks(r)[i].owner
              /\ HookResult(ExpectedHooks(r)[i].fn) # "none" => i = Len(exec[r].hooksRun)
        /\ (exec[r].dispatches = 1) => Len(exec[r].hooksRun) = Len(ExpectedHooks(r))

\* the three hooks ran in order and the request was dispatched
C21_Witness ==
    \E r \in RequestIds :
        /\ exec[r].hooksRun = <<"marshaler", "unmarshaler", "user">>
        /\ exec[r].dispatches = 1

(***************************************************************************)
(* Header names that differ in the case of their letters (C22).            *)
(***************************************************************************)

\* SpecHeaders: the headers of one client and of its Requests are set, under
\* names that differ in case as well, and the Requests are run.
NextHeaders ==
    \/ NewGetRequest(1, "background", "http://ok")
    \/ \E k \in HeaderKeys, v \in HeaderValues : HttpClientSetHeader(1, k, v)
    \/ \E r \in RequestIds :
          \/ \E k \in HeaderKeys, v \in HeaderValues : RequestSetHeader(r, k, v)
          \/ DoMarshalBody(r)
          \/ DoNewRequest(r)
          \/ DoSetHeaders(r)
          \/ DoAppendHooks(r)
          \/ DoRunHook(r)
          \/ \E t \in SharedResults : DoDispatch(r, t)
          \/ DoResponseHook(r)
          \/ DoCheckStatus(r)
          \/ DoUnmarshal(r)
          \/ DoDeferred(r)

SpecHeaders == Init /\ [][NextHeaders]_vars

\* C22: header names are case-insensitive and the last write wins: for every
\* header name the RequestOptions of r was given, Do sets on the request the
\* value given last under that name, in whatever case it was written.
C22_LastWriteWins ==
    [][\A r \in RequestIds :
          DoSetHeaders(r) =>
              \A n \in DOMAIN hist.lastWrite[requests[r].options] :
                  /\ n \in DOMAIN exec'[r].reqHeader
                  /\ exec'[r].reqHeader[n] = hist.lastWrite[requests[r].options][n]]_vars

(***************************************************************************)
(* Clone: the clone right after the call (C23).                            *)
(***************************************************************************)

\* the RequestOptions of the latest client, and its headers, in the state
\* after a step
NewestOptions == options'[clients'[Len(clients')].requestOptions]
NewestHeaders == HeadersOf(headerMaps', NewestOptions)

\* C23: right after clone = c.Clone() the timeout, the headers, the codecs,
\* the hooks, the error-hook list and the StackTraceEnabled flag of the clone
\* are equal to those of c, and the clone is a new client with a
\* RequestOptions and a header map of its own; c is as it was.
C23_CloneEqualAndDistinct ==
    [][\A c \in ClientIds :
          Clone(c) =>
              /\ Len(clients') = Len(clients) + 1
              /\ clients'[Len(clients')].timeout = clients[c].timeout
              /\ NewestHeaders = ClientHeaders(c)
              /\ Settings(NewestOptions) = Settings(ClientOptions(c))
              /\ clients'[Len(clients')].requestOptions \notin
                    {clients[d].requestOptions : d \in ClientIds}
              /\ NewestOptions.Headers # Nil
              /\ NewestOptions.Headers \notin
                    {options[p].Headers : p \in 1..Len(options)}
              /\ clients'[c] = clients[c]
              /\ ClientOptions(c)' = ClientOptions(c)
              /\ ClientHeaders(c)' = ClientHeaders(c)]_vars

\* a client with headers, a timeout of its own and the dump hook, and its
\* clone, nothing called since: the two pointers differ, the contents are equal
C23_Witness ==
    /\ Len(clients) = 2
    /\ calls = 2
    /\ clients[1].timeout = 30
    /\ clients[2].timeout = 30
    /\ ClientOptions(1).OnErrorHooks = <<DumpHook>>
    /\ ClientOptions(2) = [ClientOptions(1) EXCEPT !.Headers = ClientOptions(2).Headers]
    /\ clients[1].requestOptions # clients[2].requestOptions

(***************************************************************************)
(* NewHttpClient (C24).                                                    *)
(***************************************************************************)

\* another call of NewHttpClient()
NewClient ==
    /\ Len(clients) < MaxClients
    /\ clients' = Append(clients, NewHttpClient(Len(options) + 1))
    /\ options' = Append(options, DefaultOptions)
    /\ hist' = [hist EXCEPT !.clientHeaders = Append(@, EmptyMap),
                            !.lastWrite = Append(@, EmptyMap)]
    /\ UNCHANGED <<headerMaps, requests, exec, calls, lastCall, codec>>

\* SpecNew: clients are made and configured.
NextNew ==
    \/ NewClient
    \/ ClientSetter

SpecNew == Init /\ [][NextNew]_vars

\* the default state of a client
IsDefault(client, o, headers) ==
    /\ client.timeout = 20
    /\ o.BodyMarshaler = "Noop"
    /\ o.BodyUnmarshaler = "Noop"
    /\ headers = EmptyMap
    /\ o.OnRequestReady = NilHook
    /\ o.OnResponseReady = NilHook
    /\ o.OnErrorHooks = <<>>
    /\ o.StackTraceEnabled = FALSE

\* C24: a client is in the default state when it is made, whatever was done
\* to the clients made before: a timeout of 20 seconds, the noop marshaler
\* and unmarshaler, no header, no ready-hook, no error hook, no stack trace.
C24_NewClientDefaults ==
    /\ [](calls = 0 => IsDefault(clients[1], ClientOptions(1), ClientHeaders(1)))
    /\ [][NewClient =>
             IsDefault(clients'[Len(clients')], NewestOptions, NewestHeaders)]_vars

\* a client made after the first one was configured
C24_Witness ==
    /\ Len(clients) = 2
    /\ ~IsDefault(clients[1], ClientOptions(1), ClientHeaders(1))
    /\ clients[1].timeout = 30
    /\ ClientOptions(1).Headers # Nil
    /\ clients[2].requestOptions = 2
    /\ IsDefault(clients[2], ClientOptions(2), ClientHeaders(2))

(***************************************************************************)
(* The two codecs.  A body is a Go value: its dynamic type (kind) and its  *)
(* content; a writer or a reader is the sequence of the bytes it holds,    *)
(* a byte being a string of one character.                                 *)
(***************************************************************************)
MaxLen == 2

\* the bytes of the strings: a letter, and the ones encoding/json escapes
Chars == {"a", "\"", "\\", "<", "\n"}

RECURSIVE Strings(_)
Strings(n) ==
    IF n = 0 THEN {<<>>}
    ELSE Strings(n - 1) \cup
         {Append(s, c) : s \in {t \in Strings(n - 1) : Len(t) = n - 1}, c \in Chars}

\* struct { Name string `json:"name"`; Email string `json:"email"`;
\*          Age int `json:"age"` }
Ages == {-12, 0, 7, 105}
Emails == {<<>>, <<"a", "<">>}
Structs == [Name : Strings(MaxLen), Email : Emails, Age : Ages]
ZeroStruct == [Name |-> <<>>, Email |-> <<>>, Age |-> 0]

Hello == <<"h", "e", "l", "l", "o">>
NilValue == [kind |-> "nil", data |-> <<>>]

\* A mutant of EscapeByte: no byte is escaped.
EscapeByteNone(c) == <<c>>

\* json.Encoder: a byte of a string literal.  The quote, the backslash and the
\* newline are escaped, and so is "<" (the encoder escapes HTML by default).

EscapeByte(c) ==
    IF c = "\"" THEN <<"\\", "\"">>
    ELSE IF c = "\\" THEN <<"\\", "\\">>
    ELSE IF c = "\n" THEN <<"\\", "n">>
    ELSE IF c = "<" THEN <<"\\", "u", "0", "0", "3", "c">>
    ELSE <<c>>

RECURSIVE EncodeChars(_)
EncodeChars(s) ==
    IF s = <<>> THEN <<>> ELSE EscapeByte(Head(s)) \o EncodeChars(Tail(s))

EncodeString(s) == <<"\"">> \o EncodeChars(s) \o <<"\"">>

\* json.Encoder: an int, in decimal
RECURSIVE Digits(_)
Digits(n) ==
    IF n < 10 THEN <<Digit(n)>> ELSE Append(Digits(n \div 10), Digit(n % 10))

EncodeInt(n) == IF n < 0 THEN <<"-">> \o Digits(-n) ELSE Digits(n)

\* json.Encoder: the struct, its fields in the order of their declaration
\* under the names of their tags
EncodeStruct(v) ==
    <<"{">> \o EncodeString(<<"n", "a", "m", "e">>) \o <<":">>
            \o EncodeString(v.Name) \o <<",">>
            \o EncodeString(<<"e", "m", "a", "i", "l">>) \o <<":">>
            \o EncodeString(v.Email) \o <<",">>
            \o EncodeString(<<"a", "g", "e">>) \o <<":">>
            \o EncodeInt(v.Age) \o <<"}">>

\* json.Encoder.Encode: the value, then a newline
JSONEncode(v) == EncodeStruct(v) \o <<"\n">>

\* JSONBodyMarshaler.Marshal: the error and what the writer holds afterwards
JSONBodyMarshalerMarshal(body, writer) ==
    IF body.kind = "nil" THEN [err |-> "body is nil", writer |-> writer]
    ELSE [err |-> "none", writer |-> writer \o JSONEncode(body.data)]

\* json.Decoder, a parser: each operator takes the bytes and a position and
\* gives what it read and the position after it
At(b, i) == IF i \in 1..Len(b) THEN b[i] ELSE "EOF"

ParseFailed == [ok |-> FALSE, val |-> <<>>, pos |-> 0]

RECURSIVE SkipSpace(_, _)
SkipSpace(b, i) ==
    IF At(b, i) \in {" ", "\n", "\t", "\r"} THEN SkipSpace(b, i + 1) ELSE i

\* the text of a string literal, from the byte after its opening quote
RECURSIVE DecodeChars(_, _, _)
DecodeChars(b, i, acc) ==
    LET c == At(b, i)
        e == At(b, i + 1)
    IN  IF c \in {"EOF", "\n"} THEN ParseFailed
        ELSE IF c = "\"" THEN [ok |-> TRUE, val |-> acc, pos |-> i + 1]
        ELSE IF c # "\\" THEN DecodeChars(b, i + 1, Append(acc, c))
        ELSE IF e \in {"\"", "\\", "/"} THEN DecodeChars(b, i + 2, Append(acc, e))
        ELSE IF e = "n" THEN DecodeChars(b, i + 2, Append(acc, "\n"))
        ELSE IF e = "u" /\ i + 5 <= Len(b)
                        /\ SubSeq(b, i + 2, i + 5) = <<"0", "0", "3", "c">>
            THEN DecodeChars(b, i + 6, Append(acc, "<"))
        ELSE ParseFailed

DecodeString(b, i) ==
    IF At(b, i) = "\"" THEN DecodeChars(b, i + 1, <<>>) ELSE ParseFailed

IsDigit(c) == c \in {Digit(d) : d \in 0..9}
DigitValue(c) == CHOOSE d \in 0..9 : Digit(d) = c

RECURSIVE DecodeDigits(_, _, _)
DecodeDigits(b, i, acc) ==
    IF IsDigit(At(b, i))
        THEN DecodeDigits(b, i + 1, acc * 10 + DigitValue(At(b, i)))
    ELSE [ok |-> TRUE, val |-> acc, pos |-> i]

DecodeInt(b, i) ==
    LET j == IF At(b, i) = "-" THEN i + 1 ELSE i
        d == DecodeDigits(b, j, 0)
    IN  IF ~IsDigit(At(b, j)) THEN ParseFailed
        ELSE IF At(b, i) = "-" THEN [d EXCEPT !.val = -@]
        ELSE d

\* the members of an object, from the byte after "{" or ",": a member whose
\* key is the tag of a field is stored in the field, another one is skipped
RECURSIVE DecodeMembers(_, _, _)
DecodeMembers(b, i, dest) ==
    LET k == DecodeString(b, SkipSpace(b, i))
        colon == SkipSpace(b, k.pos)
        start == SkipSpace(b, colon + 1)
        isText == At(b, start) = "\""
        v == IF isText THEN DecodeString(b, start) ELSE DecodeInt(b, start)
        stored ==
            IF k.val = <<"n", "a", "m", "e">> THEN [dest EXCEPT !.Name = v.val]
            ELSE IF k.val = <<"e", "m", "a", "i", "l">>
                THEN [dest EXCEPT !.Email = v.val]
            ELSE IF k.val = <<"a", "g", "e">> THEN [dest EXCEPT !.Age = v.val]
            ELSE dest
        mismatch ==
            \/ k.val \in {<<"n", "a", "m", "e">>, <<"e", "m", "a", "i", "l">>}
                 /\ ~isText
            \/ k.val = <<"a", "g", "e">> /\ isText
        sep == SkipSpace(b, v.pos)
    IN  IF ~k.ok THEN ParseFailed
        ELSE IF At(b, colon) # ":" THEN ParseFailed
        ELSE IF ~v.ok \/ mismatch THEN ParseFailed
        ELSE IF At(b, sep) = "," THEN DecodeMembers(b, sep + 1, stored)
        ELSE IF At(b, sep) = "}"
            THEN [ok |-> TRUE, val |-> stored, pos |-> sep + 1]
        ELSE ParseFailed

\* json.Decoder.Decode into a pointer to the struct: the next value of the
\* stream; what follows the value is left unread
JSONDecode(b, dest) ==
    LET i == SkipSpace(b, 1)
    IN  IF At(b, i) # "{" THEN ParseFailed
        ELSE IF At(b, SkipSpace(b, i + 1)) = "}"
            THEN [ok |-> TRUE, val |-> dest, pos |-> SkipSpace(b, i + 1) + 1]
        ELSE DecodeMembers(b, i + 1, dest)

\* JSONBodyUnmarshaler.Unmarshal: the error and what the destination holds
\* afterwards.  hasReader is false for a nil reader.
JSONBodyUnmarshalerUnmarshal(result, hasReader, reader) ==
    LET d == JSONDecode(reader, result.data)
    IN  IF ~hasReader THEN [err |-> "reader is nil", result |-> result]
        ELSE IF result.kind # "*struct" \/ ~d.ok
            THEN [err |-> "json decode error", result |-> result]
        ELSE [err |-> "none", result |-> [result EXCEPT !.data = d.val]]

\* A mutant of NoopBodyMarshaler.Marshal: a string is the only body it takes.
NoopBodyMarshalerMarshalTextOnly(body, writer) ==
    IF body.kind = "string"
        THEN [err |-> "none", writer |-> writer \o body.data]
    ELSE [err |-> "unsupported body type", writer |-> writer]

\* NoopBodyMarshaler.Marshal: the error and what the writer holds afterwards.
\* A []byte, a string and an io.Reader are read to their end by io.Copy.
NoopBodyMarshalerMarshal(body, writer) ==
    IF body.kind = "nil" THEN [err |-> "body is nil", writer |-> writer]
    ELSE IF body.kind \in {"[]byte", "string", "io.Reader"}
        THEN [err |-> "none", writer |-> writer \o body.data]
    ELSE [err |-> "unsupported body type", writer |-> writer]

\* NoopBodyUnmarshaler.Unmarshal: the error and what the destination holds
\* afterwards
NoopBodyUnmarshalerUnmarshal(result, hasReader, reader) ==
    IF ~hasReader THEN [err |-> "reader is nil", result |-> result]
    ELSE IF result.kind = "nil"
        THEN [err |-> "result destination is nil", result |-> result]
    ELSE IF result.kind = "io.Writer"
        THEN [err |-> "none", result |-> [result EXCEPT !.data = @ \o reader]]
    ELSE IF result.kind \in {"*[]byte", "*string"}
        THEN [err |-> "none", result |-> [result EXCEPT !.data = reader]]
    ELSE [err |-> "unsupported result destination", result |-> result]

\* the calls: a codec, a body to marshal and a destination to unmarshal to
JSONBodies == {[kind |-> "struct", data |-> v] : v \in Structs} \cup {NilValue}

NoopBodies ==
    {[kind |-> k, data |-> d] : k \in {"[]byte", "string", "io.Reader"},
                                d \in {<<>>, Hello, <<"a", "\n">>}}
    \cup {NilValue, [kind |-> "int", data |-> 7],
          [kind |-> "struct", data |-> ZeroStruct]}

NoopResults ==
    {[kind |-> k, data |-> <<>>] : k \in {"nil", "*string", "*[]byte", "io.Writer"}}
    \cup {[kind |-> "*int", data |-> 0]}

CodecCall(name, body, result) ==
    [codec |-> name, pc |-> "marshal", body |-> body, writer |-> <<>>,
     err |-> "none", result |-> result, unmarshalErr |-> "none"]

CodecCalls ==
    {CodecCall("JSON", b, [kind |-> "*struct", data |-> ZeroStruct]) :
        b \in JSONBodies}
    \cup {CodecCall("Noop", b, d) : b \in NoopBodies, d \in NoopResults}

\* marshaler.Marshal(body, writer) on an empty buffer
Marshaled(m) ==
    codec' = [codec EXCEPT !.writer = m.writer, !.err = m.err,
                           !.pc = IF m.err = "none" THEN "unmarshal" ELSE "done"]

JSONMarshal ==
    /\ codec.pc = "marshal"
    /\ codec.codec = "JSON"
    /\ Marshaled(JSONBodyMarshalerMarshal(codec.body, codec.writer))
    /\ UNCHANGED <<clients, options, headerMaps, requests, exec, calls,
                   lastCall, hist>>

NoopMarshal ==
    /\ codec.pc = "marshal"
    /\ codec.codec = "Noop"
    /\ Marshaled(NoopBodyMarshalerMarshal(codec.body, codec.writer))
    /\ UNCHANGED <<clients, options, headerMaps, requests, exec, calls,
                   lastCall, hist>>

\* unmarshaler.Unmarshal(result, reader), the reader holding what was written
Unmarshaled(u) ==
    codec' = [codec EXCEPT !.result = u.result, !.unmarshalErr = u.err,
                           !.pc = "done"]

JSONUnmarshal ==
    /\ codec.pc = "unmarshal"
    /\ codec.codec = "JSON"
    /\ Unmarshaled(JSONBodyUnmarshalerUnmarshal(codec.result, TRUE, codec.writer))
    /\ UNCHANGED <<clients, options, headerMaps, requests, exec, calls,
                   lastCall, hist>>

NoopUnmarshal ==
    /\ codec.pc = "unmarshal"
    /\ codec.codec = "Noop"
    /\ Unmarshaled(NoopBodyUnmarshalerUnmarshal(codec.result, TRUE, codec.writer))
    /\ UNCHANGED <<clients, options, headerMaps, requests, exec, calls,
                   lastCall, hist>>

InitCodec ==
    /\ clients = <<NewHttpClient(1)>>
    /\ options = <<DefaultOptions>>
    /\ headerMaps = <<>>
    /\ requests = <<>>
    /\ exec = <<>>
    /\ calls = 0
    /\ lastCall = NoCall
    /\ hist = [clientHeaders |-> <<EmptyMap>>, requestHeaders |-> <<>>,
               lastWrite |-> <<EmptyMap>>, dumpCalls |-> 0]
    /\ codec \in CodecCalls

NextCodec ==
    \/ JSONMarshal
    \/ JSONUnmarshal
    \/ NoopMarshal
    \/ NoopUnmarshal

SpecCodec == InitCodec /\ [][NextCodec]_vars

\* C25: a struct marshaled by the JSON marshaler and unmarshaled from the
\* bytes it wrote by the JSON unmarshaler, into a zero struct of the same
\* type, is the struct again; the bytes end with the encoder's newline.
C25_JSONRoundTrip ==
    (codec.codec = "JSON" /\ codec.body.kind = "struct" /\ codec.pc # "marshal")
        => /\ codec.err = "none"
           /\ codec.writer # <<>>
           /\ codec.writer[Len(codec.writer)] = "\n"
           /\ codec.pc = "done"
                => /\ codec.unmarshalErr = "none"
                   /\ codec.result.data = codec.body.data

\* a struct whose text holds the bytes the encoder escapes came back
C25_Witness ==
    /\ codec.codec = "JSON"
    /\ codec.pc = "done"
    /\ codec.body.kind = "struct"
    /\ codec.body.data = [Name |-> <<"\"", "\\">>, Email |-> <<"a", "<">>,
                          Age |-> -12]
    /\ codec.result.data = codec.body.data
    /\ Len(codec.writer) > 1

\* C26: the Noop marshaler writes the bytes of a []byte, a string and an
\* io.Reader as they are, as many as the body has, and returns no error; for
\* a nil body and a body of another type it returns an error and writes
\* nothing.
C26_NoopMarshal ==
    (codec.codec = "Noop" /\ codec.pc # "marshal")
        => IF codec.body.kind \in {"[]byte", "string", "io.Reader"}
               THEN /\ codec.err = "none"
                    /\ codec.writer = codec.body.data
                    /\ Len(codec.writer) = Len(codec.body.data)
           ELSE /\ codec.err # "none"
                /\ codec.writer = <<>>

\* the five bytes of the string hello were written
C26_Witness ==
    /\ codec.codec = "Noop"
    /\ codec.pc # "marshal"
    /\ codec.body.kind = "string"
    /\ codec.body.data = Hello
    /\ Len(codec.writer) = 5
    /\ codec.err = "none"

(***************************************************************************)
(* The factories of the nine methods, called on a client and on its clone. *)
(***************************************************************************)
NextFactories ==
    \/ \E c \in ClientIds : Clone(c)
    \/ \E c \in ClientIds, ctx \in Contexts, path \in {"http://ok"} :
          \/ NewGetRequest(c, ctx, path)
          \/ NewDeleteRequest(c, ctx, path)
          \/ NewOptionsRequest(c, ctx, path)
          \/ NewConnectRequest(c, ctx, path)
          \/ NewHeadRequest(c, ctx, path)
          \/ NewTraceRequest(c, ctx, path)
          \/ \E body \in Bodies :
                \/ NewPostRequest(c, ctx, path, body)
                \/ NewPutRequest(c, ctx, path, body)
                \/ NewPatchRequest(c, ctx, path, body)

SpecFactories == Init /\ [][NextFactories]_vars

\* the step made a Request of these fields, undecoded, on the options of c
Created(c, ctx, method, path, body) ==
    LET q == requests'[Len(requests')]
    IN  /\ Len(requests') = Len(requests) + 1
        /\ SubSeq(requests', 1, Len(requests)) = requests
        /\ q.client = c
        /\ q.method = method
        /\ q.path = path
        /\ q.ctx = ctx
        /\ q.body = body
        /\ q.unmarshalResult = FALSE
        /\ q.unmarshalResultTo = "nil"
        /\ q.options = clients[c].requestOptions

\* C27: each factory makes the Request NewRequest makes for its method: the
\* method, the path and the context given, the body given for POST, PUT and
\* PATCH and nil for the six others, nothing to unmarshal to, and the pointer
\* to the options of the client it was called on.
C27_Factories ==
    [][\A c \in ClientIds, ctx \in Contexts, path \in Paths :
          /\ NewGetRequest(c, ctx, path) => Created(c, ctx, "GET", path, NilBody)
          /\ NewDeleteRequest(c, ctx, path)
                => Created(c, ctx, "DELETE", path, NilBody)
          /\ NewOptionsRequest(c, ctx, path)
                => Created(c, ctx, "OPTIONS", path, NilBody)
          /\ NewConnectRequest(c, ctx, path)
                => Created(c, ctx, "CONNECT", path, NilBody)
          /\ NewHeadRequest(c, ctx, path) => Created(c, ctx, "HEAD", path, NilBody)
          /\ NewTraceRequest(c, ctx, path)
                => Created(c, ctx, "TRACE", path, NilBody)
          /\ \A body \in Bodies :
                /\ NewPostRequest(c, ctx, path, body)
                      => Created(c, ctx, "POST", path, body)
                /\ NewPutRequest(c, ctx, path, body)
                      => Created(c, ctx, "PUT", path, body)
                /\ NewPatchRequest(c, ctx, path, body)
                      => Created(c, ctx, "PATCH", path, body)]_vars

\* a PUT with a body made on a clone, after a DELETE made on the original
C27_Witness ==
    /\ Len(requests) = 2
    /\ Len(clients) = 2
    /\ requests[1] = [client |-> 1, method |-> "DELETE", path |-> "http://ok",
                      ctx |-> "background", body |-> NilBody,
                      unmarshalResultTo |-> "nil", unmarshalResult |-> FALSE,
                      options |-> clients[1].requestOptions]
    /\ requests[2] = [client |-> 2, method |-> "PUT", path |-> "http://ok",
                      ctx |-> "cancellable", body |-> "struct",
                      unmarshalResultTo |-> "nil", unmarshalResult |-> FALSE,
                      options |-> clients[2].requestOptions]
    /\ clients[2].requestOptions # clients[1].requestOptions

\* C28: once a call of Do on a Request has returned, a call of Do on the
\* Request marshals no body and sends nothing.
C28_SingleUse ==
    [][\A r \in RequestIds :
          exec[r].finished > 0
              => /\ exec'[r].dispatches <= exec[r].dispatches
                 /\ exec'[r].marshaled => exec[r].marshaled]_vars

\* the statements of Do in the order of the source: marshal the body, make
\* the request, set the headers, collect and run the ready-hooks and send,
\* call the response-ready hook, test the status, unmarshal
DoOrder ==
    <<"built", "newRequest", "headers", "hooks", "runHooks", "responseHook",
      "status", "unmarshal">>

Position(pc) == CHOOSE i \in 1..Len(DoOrder) : DoOrder[i] = pc

\* the call is over: it returned, or it panicked in the deferred function
Ended(pc) == pc \in {"returned", "panicked"}

\* a step of Do goes to the next statement, stays in the loop over the
\* ready-hooks, or leaves Do
InOrder(r) ==
    LET from == exec[r].pc
        to == exec'[r].pc
    IN  (exec'[r] # exec[r] /\ ~Ended(from)) =>
            \/ to \in {"deferred", "returned", "panicked"}
            \/ /\ from # "deferred"
               /\ to # "deferred"
               /\ \/ Position(to) = Position(from) + 1
                  \/ from = "runHooks" /\ to = "runHooks"

\* C29: a call of Do goes through its statements in their order, none twice
\* and none after a later one, and it ends by returning: either a nil error
\* or an error.
C29_OrderAndOutcome ==
    /\ [][\A r \in RequestIds : InOrder(r)]_vars
    /\ [](\A r \in RequestIds :
             Ended(exec[r].pc) => /\ exec[r].pc = "returned"
                                  /\ exec[r].ret.returned)

\* the response-ready hook of the Request, called on the response
ResponseHookDue(r) ==
    /\ RequestOptionsOf(r).OnResponseReady # NilHook
    /\ exec[r].resp.present
    /\ exec[r].pc # "responseHook"

\* an error hook was given the error of the status test
StatusErrorSeen(r) ==
    \E i \in 1..Len(exec[r].errorHookCalls) :
        exec[r].errorHookCalls[i].err.msg = "status"

\* C30: the response-ready hook is called once for a response of the
\* transport, of any status, before the status is tested, and not otherwise;
\* when the hook fails on a response that is not 2xx, Do returns the hook's
\* error and makes no status error.
C30_ResponseHookOnce ==
    \A r \in RequestIds :
        /\ exec[r].responseHookRuns = IF ResponseHookDue(r) THEN 1 ELSE 0
        /\ (exec[r].pc = "status" \/ exec[r].ret.err.msg = "status")
              => exec[r].responseHookRuns =
                    IF RequestOptionsOf(r).OnResponseReady # NilHook THEN 1 ELSE 0
        /\ (ResponseHookFailed(r) /\ ~IsSuccessResponse(exec[r].resp))
              => /\ exec[r].responseHookRuns = 1
                 /\ exec[r].ret.returned
                 /\ exec[r].ret.err.msg = "on response ready hook"
                 /\ exec[r].ret.err.cause = "HookFails"
                 /\ ~StatusErrorSeen(r)

\* the hook failed on a 404 and its error, not a status error, was given to
\* the error hook and returned
C30_Witness ==
    \E r \in RequestIds :
        /\ exec[r].resp.present
        /\ exec[r].resp.StatusCode = 404
        /\ RequestOptionsOf(r).OnResponseReady = "HookFails"
        /\ exec[r].responseHookRuns = 1
        /\ exec[r].pc = "returned"
        /\ Len(exec[r].errorHookCalls) = 1
        /\ exec[r].errorHookCalls[1].err.msg = "on response ready hook"
        /\ exec[r].ret.err.msg = "on response ready hook"

(***************************************************************************)
(* Do: the hooks of the codecs, the setters of the diagnostics and of the  *)
(* headers.                                                                *)
(***************************************************************************)

\* the number of calls of the ready-hook of an owner, and whether the loop
\* over beforeRequestHooks was given it
Runs(r, owner) ==
    Cardinality({i \in 1..Len(exec[r].hooksRun) : exec[r].hooksRun[i] = owner})

Registered(r, owner) ==
    \E i \in 1..Len(exec[r].beforeRequestHooks) :
        exec[r].beforeRequestHooks[i].owner = owner

OnlyStackTrace(p, b) ==
    /\ DOMAIN options' = DOMAIN options
    /\ options'[p].StackTraceEnabled = b
    /\ \A q \in DOMAIN options :
          /\ options'[q].OnErrorHooks = options[q].OnErrorHooks
          /\ options'[q].Headers = options[q].Headers
          /\ options'[q].BodyMarshaler = options[q].BodyMarshaler
          /\ options'[q].BodyUnmarshaler = options[q].BodyUnmarshaler
          /\ options'[q].OnRequestReady = options[q].OnRequestReady
          /\ options'[q].OnResponseReady = options[q].OnResponseReady
          /\ q # p => options'[q].StackTraceEnabled = options[q].StackTraceEnabled
    /\ headerMaps' = headerMaps
    /\ clients' = clients

\* C32: SetStackTraceEnabled(b), on a client or on a Request, changes the
\* flag and nothing else: after SetDumpOnError it leaves the one dump hook
\* where it is.  SetDumpOnError sets the flag.  No error hook is installed
\* without a call of SetDumpOnError.
C32_StackTraceToggle ==
    /\ [][/\ \A c \in ClientIds, b \in BOOLEAN :
                HttpClientSetStackTraceEnabled(c, b)
                    => OnlyStackTrace(clients[c].requestOptions, b)
          /\ \A r \in RequestIds, b \in BOOLEAN :
                RequestSetStackTraceEnabled(r, b)
                    => OnlyStackTrace(requests[r].options, b)
          /\ \A c \in ClientIds :
                HttpClientSetDumpOnError(c) => ClientOptions(c).StackTraceEnabled'
          /\ \A r \in RequestIds :
                RequestSetDumpOnError(r)
                    => options'[requests[r].options].StackTraceEnabled]_vars
    /\ [](hist.dumpCalls = 0 =>
             \A q \in DOMAIN options : options[q].OnErrorHooks = <<>>)

\* SetDumpOnError, then SetStackTraceEnabled(false): one dump hook, no stack
C32_Witness ==
    /\ calls = 2
    /\ hist.dumpCalls = 1
    /\ options[1].OnErrorHooks = <<DumpHook>>
    /\ ~options[1].StackTraceEnabled

\* SpecUpsert: the header setters of a client and of its clone, called with
\* every map and every key of the model
NextUpsert ==
    \E c \in ClientIds :
        \/ Clone(c)
        \/ \E h \in HeaderArgs : HttpClientSetHeaders(c, h)
        \/ \E k \in HeaderKeys, v \in HeaderValues : HttpClientSetHeader(c, k, v)

SpecUpsert == Init /\ [][NextUpsert]_vars

\* C33: SetHeaders(m) gives every key of m the value of m, leaves every other
\* key of the map with its value and removes none; SetHeader(k, v) is
\* SetHeaders of the map of k alone; so each key holds the value of the last
\* call that named it, letter for letter.
C33_HeadersUpsert ==
    /\ [][\A c \in ClientIds, h \in HeaderArgs :
             HttpClientSetHeaders(c, h) =>
                 /\ DOMAIN ClientHeaders(c)' = DOMAIN ClientHeaders(c) \cup DOMAIN h
                 /\ \A k \in DOMAIN h : ClientHeaders(c)'[k] = h[k]
                 /\ \A k \in DOMAIN ClientHeaders(c) \ DOMAIN h :
                       ClientHeaders(c)'[k] = ClientHeaders(c)[k]]_vars
    /\ [][\A c \in ClientIds, k \in HeaderKeys, v \in HeaderValues :
             HttpClientSetHeader(c, k, v)
                 => HttpClientSetHeaders(c, [x \in {k} |-> v])]_vars
    /\ [](\A c \in ClientIds : ClientHeaders(c) = hist.clientHeaders[c])

\* the second call overwrote X-A, left X-B and added x-a next to X-A
C33_Witness ==
    /\ calls = 2
    /\ DOMAIN ClientHeaders(1) = {"X-A", "x-a", "X-B"}
    /\ ClientHeaders(1)["X-A"] = "v2"
    /\ ClientHeaders(1)["x-a"] = "v1"
    /\ ClientHeaders(1)["X-B"] = "v1"

\* the step called the dump hook of r with a response
Dumped(r) ==
    /\ Len(exec'[r].errorHookCalls) = Len(exec[r].errorHookCalls) + 1
    /\ exec'[r].errorHookCalls[Len(exec'[r].errorHookCalls)].hook = DumpHook
    /\ exec'[r].errorHookCalls[Len(exec'[r].errorHookCalls)].resp

\* C34: when the dump hook is called with a response from whose body nothing
\* was read, the body the response has afterwards is unread, open and holds
\* what the transport's body held; Do reads nothing from it before it
\* returns.
C34_DumpRebuffers ==
    /\ [][\A r \in RequestIds :
             (Dumped(r) /\ exec'[r].ret.err.msg # "body unmarshaling") =>
                 LET before == exec[r].bodies[exec[r].resp.Body]
                     after == exec'[r].bodies[exec'[r].resp.Body]
                 IN  /\ ~before.read
                     /\ after.content = before.content
                     /\ ~after.read
                     /\ after.closed = 0]_vars
    /\ [](\A r \in RequestIds :
             (/\ exec[r].ret.returned
              /\ exec[r].ret.resp
              /\ Len(exec[r].bodies) = 2
              /\ exec[r].ret.err.msg # "body unmarshaling") =>
                 /\ exec[r].resp.Body = 2
                 /\ exec[r].bodies[2].content = exec[r].bodies[1].content
                 /\ ~exec[r].bodies[2].read
                 /\ exec[r].bodies[2].nop)

\* the dump hook ran on the response of a status error and Do returned
C34_Witness ==
    \E r \in RequestIds :
        /\ exec[r].pc = "returned"
        /\ exec[r].ret.err.msg = "status"
        /\ Len(exec[r].errorHookCalls) = 1
        /\ exec[r].errorHookCalls[1].hook = DumpHook
        /\ exec[r].bodies[1].content = "json"
        /\ exec[r].bodies[1].read
        /\ exec[r].bodies[exec[r].resp.Body].content = "json"
        /\ ~exec[r].bodies[exec[r].resp.Body].read

\* SpecDoFair: one call of Do whose every statement, and every call it makes
\* of a codec, a hook or the transport, returns: a statement that can run
\* does run
SpecDoFair == InitDo /\ [][NextDo]_vars /\ WF_vars(NextDo)

\* C35: a call of Do returns a response and an error to its caller, after a
\* transport failure with WriteBodyTo as on every other path.
C35_DoReturns ==
    <>(\A r \in RequestIds : exec[r].pc = "returned" /\ exec[r].ret.returned)

\* C36: the destination of WriteBodyTo is written only after a dispatch
\* that gave a response, a response-ready hook that did not fail, a status
\* from 200 to 299, with WriteBodyTo called and an unmarshaler set; with a
\* status outside 200..299 and no unmarshaler, the error is the status error.
C36_DestinationWritten ==
    \A r \in RequestIds :
        /\ exec[r].destWritten
              => /\ exec[r].dispatches = 1
                 /\ exec[r].resp.present
                 /\ HookResult(RequestOptionsOf(r).OnResponseReady) = "none"
                 /\ IsSuccessResponse(exec[r].resp)
                 /\ requests[r].unmarshalResult
                 /\ RequestOptionsOf(r).BodyUnmarshaler # NilCodec
        /\ (/\ exec[r].ret.returned
            /\ exec[r].resp.present
            /\ HookResult(RequestOptionsOf(r).OnResponseReady) = "none"
            /\ ~IsSuccessResponse(exec[r].resp)
            /\ requests[r].unmarshalResult
            /\ RequestOptionsOf(r).BodyUnmarshaler = NilCodec)
              => /\ exec[r].ret.err.msg = "status"
                 /\ \A i \in 1..Len(exec[r].errorHookCalls) :
                       exec[r].errorHookCalls[i].err.msg = "status"

\* a response of status 299 was unmarshaled into the destination
C36_Witness ==
    \E r \in RequestIds :
        /\ exec[r].destWritten
        /\ exec[r].pc = "returned"
        /\ exec[r].resp.StatusCode = 299
        /\ RequestOptionsOf(r).BodyUnmarshaler = "JSON"
        /\ exec[r].ret.err = NoError

(***************************************************************************)
(* SpecStamp: one call of Do on a Request whose options hold, or not,      *)
(* headers of the names the JSON codecs and the user's hook set.           *)
(***************************************************************************)
StampHeaders == [k \in {"Content-Type", "Accept", "X-A"} |-> "v1"]

StampOptions ==
    [BodyMarshaler     : {"Noop", "JSON"},
     BodyUnmarshaler   : {"Noop", "JSON", NilCodec},
     Headers           : {Nil, 1},   \* nil, or the map StampHeaders
     OnRequestReady    : {NilHook, "HookOK", "HookStamps"},
     OnResponseReady   : {NilHook},
     OnErrorHooks      : {<<>>},
     StackTraceEnabled : {FALSE}]

StampRequests ==
    [client            : {1},
     method            : {"POST"},
     path              : {"http://ok"},
     ctx               : {"background"},
     body              : {NilBody, "string"},
     unmarshalResultTo : {"nil", "*string"},
     unmarshalResult   : BOOLEAN,
     options           : {1}]

InitStamp ==
    /\ clients = <<NewHttpClient(1)>>
    /\ \E o \in StampOptions :
          /\ options = <<o>>
          /\ headerMaps = IF o.Headers = Nil THEN <<>> ELSE <<StampHeaders>>
    /\ \E q \in StampRequests :
          /\ q.unmarshalResult <=> q.unmarshalResultTo # "nil"
          /\ requests = <<q>>
    /\ exec = <<NotStarted>>
    /\ calls = 0
    /\ lastCall = NoCall
    /\ hist = [clientHeaders |-> <<HeadersOf(headerMaps, options[1])>>,
               requestHeaders |-> <<EmptyMap>>,
               lastWrite |-> <<HeadersOf(headerMaps, options[1])>>,
               dumpCalls |-> 0]
    /\ codec = NoCodecCall

SpecStamp == InitStamp /\ [][NextDo]_vars

\* the value the request must carry for a header that the hook of a codec
\* sets when stamps is true: the user's, else the codec's, else the
\* configured one; "absent" when there is none
Carried(r, name, stamps) ==
    IF RequestOptionsOf(r).OnRequestReady = "HookStamps" THEN "user"
    ELSE IF stamps THEN "application/json"
    ELSE IF name \in DOMAIN HeadersOf(headerMaps, RequestOptionsOf(r))
        THEN HeadersOf(headerMaps, RequestOptionsOf(r))[name]
    ELSE "absent"

HeaderOf(r, name) ==
    IF name \in DOMAIN exec[r].reqHeader THEN exec[r].reqHeader[name] ELSE "absent"

\* C37: the configured headers are on the request before the first
\* ready-hook runs; in the request that is sent, Content-Type is the JSON
\* marshaler's and Accept the JSON unmarshaler's whatever was configured
\* under these names, and both are the user's hook's when it sets them.
C37_HookHeadersOverride ==
    \A r \in RequestIds :
        /\ exec[r].hooksRun # <<>>
              => \A k \in DOMAIN HeadersOf(headerMaps, RequestOptionsOf(r)) :
                    k \in DOMAIN exec[r].reqHeader
        /\ exec[r].dispatches = 1
              => /\ HeaderOf(r, "Content-Type")
                       = Carried(r, "Content-Type",
                                 /\ requests[r].body # NilBody
                                 /\ RequestOptionsOf(r).BodyMarshaler = "JSON")
                 /\ HeaderOf(r, "Accept")
                       = Carried(r, "Accept",
                                 RequestOptionsOf(r).BodyUnmarshaler = "JSON")
                 /\ HeaderOf(r, "X-A") = Carried(r, "X-A", FALSE)
                       \/ RequestOptionsOf(r).OnRequestReady = "HookStamps"

\* the JSON codecs replaced the two configured headers in the request sent
C37_Witness ==
    \E r \in RequestIds :
        /\ exec[r].dispatches = 1
        /\ RequestOptionsOf(r).Headers # Nil
        /\ RequestOptionsOf(r).OnRequestReady = "HookOK"
        /\ exec[r].hooksRun = <<"marshaler", "unmarshaler", "user">>
        /\ exec[r].reqHeader["Content-Type"] = "application/json"
        /\ exec[r].reqHeader["Accept"] = "application/json"
        /\ exec[r].reqHeader["X-A"] = "v1"

(***************************************************************************)
(* SpecLate: a Request is made by a new client, then the client is         *)
(* configured, then Do is called; no setter of the Request is called.      *)
(***************************************************************************)
InitLate ==
    /\ clients = <<NewHttpClient(1)>>
    /\ options = <<DefaultOptions>>
    /\ headerMaps = <<>>
    /\ \E q \in {NewRequestValue(1, "background", "GET", "http://ok", NilBody),
                 NewRequestValue(1, "background", "POST", "http://ok", "string")} :
          requests = <<q>>
    /\ exec = <<NotStarted>>
    /\ calls = 0
    /\ lastCall = NoCall
    /\ hist = [clientHeaders |-> <<EmptyMap>>, requestHeaders |-> <<EmptyMap>>,
               lastWrite |-> <<EmptyMap>>, dumpCalls |-> 0]
    /\ codec = NoCodecCall

NextLate ==
    \/ Built(1) /\ ClientSetter
    \/ NextDo

SpecLate == InitLate /\ [][NextLate]_vars

\* C38: a Request on which no setter was called has the options of its
\* client, as they are when Do runs: the headers, the codecs, the hooks, the
\* error hooks and the stack trace that Do uses are those the client was
\* given after the Request was made.
C38_ClientOptionsAtDo ==
    \A r \in RequestIds :
        LET c == requests[r].client
            o == ClientOptions(c)
        IN  /\ requests[r].options = clients[c].requestOptions
            /\ exec[r].dispatches = 1
                  => /\ \A k \in DOMAIN ClientHeaders(c) :
                           /\ k \in DOMAIN exec[r].reqHeader
                           /\ exec[r].reqHeader[k] = ClientHeaders(c)[k]
                     /\ Registered(r, "marshaler")
                           <=> requests[r].body # NilBody /\ o.BodyMarshaler # NilCodec
                     /\ Registered(r, "unmarshaler") <=> o.BodyUnmarshaler # NilCodec
                     /\ Registered(r, "user") <=> o.OnRequestReady # NilHook
            /\ (requests[r].body # NilBody /\ exec[r].pc # "built")
                  => (exec[r].ret.err.msg = "body marshaler is not set"
                         <=> o.BodyMarshaler = NilCodec)
            /\ (exec[r].resp.present /\ exec[r].pc # "responseHook")
                  => exec[r].responseHookRuns
                        = IF o.OnResponseReady # NilHook THEN 1 ELSE 0
            /\ (exec[r].ret.returned /\ exec[r].ret.err # NoError)
                  => /\ exec[r].ret.err.stack = o.StackTraceEnabled
                     /\ Len(exec[r].errorHookCalls) = Len(o.OnErrorHooks)

\* the client was given headers and the dump after the Request was made, and
\* Do sent the headers and called the dump hook on a status error
C38_Witness ==
    \E r \in RequestIds :
        /\ exec[r].written = {}
        /\ calls = 2
        /\ hist.dumpCalls = 1
        /\ exec[r].pc = "returned"
        /\ exec[r].reqHeader = [k \in {"X-A", "X-B"} |-> "v2"]
        /\ exec[r].ret.err.msg = "status"
        /\ exec[r].ret.err.stack
        /\ Len(exec[r].errorHookCalls) = 1

\* something can be read from a body: it holds something unread and it is
\* open, or it is an io.NopCloser, which Close leaves as it is
Readable(b) == ~b.read /\ (b.closed = 0 \/ b.nop)

\* C39: when WriteBodyTo was called and Do returns a response and an error,
\* the body of the response has been closed and nothing can be read from it;
\* the deferred close comes after the calls of the error hooks.
C39_BodyClosedOnError ==
    /\ [](\A r \in RequestIds :
             (/\ requests[r].unmarshalResult
              /\ exec[r].pc = "returned"
              /\ exec[r].ret.resp
              /\ exec[r].ret.err # NoError) =>
                 /\ exec[r].bodies[exec[r].resp.Body].closed >= 1
                 /\ ~Readable(exec[r].bodies[exec[r].resp.Body]))
    /\ [][\A r \in RequestIds :
             exec[r].pc = "deferred"
                 => exec'[r].errorHookCalls = exec[r].errorHookCalls]_vars

====
